---- MODULE Spec2Model ----
(***************************************************************************)
(* Time-tracking engine of task_management: the PrecisionTimer and its     *)
(* TimerQualityMonitor (src/renderer/utils/timer.ts), the IdleDetector     *)
(* (src/renderer/utils/idleDetector.ts) and the useTaskTimer hook that     *)
(* binds both to a task (src/renderer/hooks/useTaskTimer.ts).               *)
(*                                                                         *)
(* Objects are records, methods are operators from the object (and the     *)
(* clock reading) to the object after the call, so that a handler that     *)
(* calls several methods is one action.  Times are integer milliseconds;   *)
(* the adaptive tick delay, which the code scales by 0.95 / 1.05, is kept  *)
(* in microseconds.                                                        *)
(***************************************************************************)
EXTENDS Integers, Sequences, FiniteSets, TLC

VARIABLES
    now,          \* performance.now() / Date.now(), ms
    globalTimer,  \* the PrecisionTimer instance and the window timers it armed
    lastCall,     \* the most recent operation on the timer and what it gave back
    run,          \* the running period in progress, as a caller observes it
    idleDetector, \* the IdleDetector instance, its polling interval and queries in flight
    idleCall,     \* the most recent operation on the detector and what it gave back
    hooks,        \* the state of each task's useTaskTimer hook
    hookCall,     \* the most recent handler run in the renderer and what it did
    main,         \* the main process: the BackgroundProcessManager and ipcMain
    ipc,          \* the invoke requests of the renderer that are not answered yet
    codec         \* the most recent use of formatTime / parseTime: argument and result

timerVars == <<globalTimer, lastCall, run>>
idleVars == <<idleDetector, idleCall>>
hookVars == <<hooks, hookCall>>
mainVars == <<main, ipc>>
codecVars == <<codec>>
vars == <<now, globalTimer, lastCall, run, idleDetector, idleCall, hooks, hookCall,
          main, ipc, codec>>

(***************************************************************************)
(* Bounds of the model                                                     *)
(***************************************************************************)
MaxNow == 2500
MaxIdleNow == 3000
MaxInFlight == 1
MaxActivityHandlers == 1
MaxHistory == 3
MaxErrorNow == 160000
AnswersUntil == 2000
AnswersFrom == 150000
MaxErrorHistory == 60
MaxTaskId == 2
LongInitialSeconds == 120
NumListeners == 2
NumIdleCallbacks == 2
MaxHookNow == 301000
MaxHookHandlers == 1
MaxHookHistory == 2
MaxSteps == 5
MaxMainNow == 91000000
MaxMainSteps == 5
MaxRetryNow == 8000
MaxRetrySteps == 9

TaskIds == 1..MaxTaskId
InitialTimes == {0, LongInitialSeconds}
\* The clock moves in these steps (ms)
Deltas == {500}
IdleDeltas == {1000}
HookDeltas == {1000, 300000}
HookIdleTimes == {0, 300000}
ShownTasks == {1, 2}
MainDeltas == {1000000, 90000000}
MainIdleTimes == {0, 300000}
RetryDeltas == {1000, 2000, 4000}
\* Idle durations the host reports (ms): none, a second, and the idle
\* threshold of the global detector
IdleTimes == {0, 1000, 300000}

(***************************************************************************)
(* Values                                                                  *)
(***************************************************************************)
NULL == -1

Min(a, b) == IF a < b THEN a ELSE b
Max(a, b) == IF a > b THEN a ELSE b
Abs(a) == IF a < 0 THEN 0 - a ELSE a

\* Math.round(ms / 1000): nearest integer, halves towards +infinity
RoundSeconds(ms) == (ms + 500) \div 1000

\* reduce((a, b) => a + b, 0) and Math.max(...s), by halves of the sequence
RECURSIVE SumRange(_, _, _)
SumRange(s, lo, hi) ==
    IF lo > hi THEN 0
    ELSE IF lo = hi THEN s[lo]
    ELSE SumRange(s, lo, (lo + hi) \div 2) + SumRange(s, (lo + hi) \div 2 + 1, hi)
SumSeq(s) == SumRange(s, 1, Len(s))

RECURSIVE MaxRange(_, _, _)
MaxRange(s, lo, hi) ==
    IF lo > hi THEN 0
    ELSE IF lo = hi THEN Max(s[lo], 0)
    ELSE Max(MaxRange(s, lo, (lo + hi) \div 2), MaxRange(s, (lo + hi) \div 2 + 1, hi))
MaxSeq(s) == MaxRange(s, 1, Len(s))

\* Array.prototype.slice(-n)
SliceLast(s, n) == IF Len(s) <= n THEN s ELSE SubSeq(s, Len(s) - n + 1, Len(s))

(***************************************************************************)
(* formatTime / parseTime.  A duration text is the sequence of its colon-  *)
(* separated groups, each group the sequence of its characters: a decimal  *)
(* digit is its value, any other character a number below 0.               *)
(***************************************************************************)
RECURSIVE DigitsOf(_)
\* String(n) for an integer n >= 0
DigitsOf(n) == IF n < 10 THEN <<n>> ELSE Append(DigitsOf(n \div 10), n % 10)

\* padStart(2, '0')
PadStart2(ds) == IF Len(ds) < 2 THEN <<0>> \o ds ELSE ds

RECURSIVE NumberOf(_)
\* Number(group) for a group of digits
NumberOf(ds) ==
    IF ds = <<>> THEN 0 ELSE NumberOf(SubSeq(ds, 1, Len(ds) - 1)) * 10 + ds[Len(ds)]

\* formatTime without padStart on the minutes
formatTime_minutesUnpadded(seconds) ==
    LET hours == seconds \div 3600
        minutes == (seconds % 3600) \div 60
        secs == seconds % 60
    IN <<PadStart2(DigitsOf(hours)), DigitsOf(minutes), PadStart2(DigitsOf(secs))>>

formatTime(seconds) ==
    LET hours == seconds \div 3600
        minutes == (seconds % 3600) \div 60
        secs == seconds % 60
    IN <<PadStart2(DigitsOf(hours)), PadStart2(DigitsOf(minutes)), PadStart2(DigitsOf(secs))>>

\* A character of a group that is not a decimal digit
Minus == -1
Letter == -2

IsDigits(group) == \A i \in 1..Len(group) : group[i] \in 0..9

\* Number(group): a group of digits, the empty group included, is its decimal
\* value; a minus sign before digits negates; any other group is NaN
Number(group) ==
    IF IsDigits(group) THEN [nan |-> FALSE, value |-> NumberOf(group)]
    ELSE IF Len(group) >= 2 /\ group[1] = Minus /\ IsDigits(Tail(group))
    THEN [nan |-> FALSE, value |-> 0 - NumberOf(Tail(group))]
    ELSE [nan |-> TRUE, value |-> 0]

Thrown(message) == [threw |-> TRUE, message |-> message, value |-> 0]
Returned(value) == [threw |-> FALSE, message |-> "", value |-> value]

\* parseTime: what it returns or the message of the Error it throws.  The empty
\* string is the text of one empty group.
parseTimeOutcome(text) ==
    IF text = <<<<>>>> THEN Thrown("Invalid time string format")
    ELSE IF Len(text) # 3 THEN Thrown("Time string must be in HH:mm:ss format")
    ELSE LET hours == Number(text[1])
             minutes == Number(text[2])
             seconds == Number(text[3])
         IN IF hours.nan \/ minutes.nan \/ seconds.nan
            THEN Thrown("Invalid time values")
            ELSE IF hours.value < 0 \/ minutes.value < 0 \/ minutes.value >= 60
                    \/ seconds.value < 0 \/ seconds.value >= 60
            THEN Thrown("Invalid time range")
            ELSE Returned(hours.value * 3600 + minutes.value * 60 + seconds.value)

\* parseTime as its callers use it: the seconds, or ParseError where it throws
ParseError == "Error"
parseTime(text) ==
    LET outcome == parseTimeOutcome(text)
    IN IF outcome.threw THEN ParseError ELSE outcome.value

\* addSeconds without Math.max(0, seconds)
addSeconds_unclamped(timeString, seconds) == formatTime(parseTime(timeString) + seconds)

addSeconds(timeString, seconds) == formatTime(parseTime(timeString) + Max(0, seconds))

\* No use of formatTime / parseTime yet
NoCodec == [op |-> "new", seconds |-> 0, text |-> <<>>, parsed |-> Returned(0)]

(***************************************************************************)
(* TimerQualityMonitor.  averageDrift and qualityScore are quotients and   *)
(* are kept as [num, den].                                                 *)
(***************************************************************************)
DriftHistoryCap == 100
DriftHistoryKeep == 50
TargetAccuracy == 50

QualityMonitorInit ==
    [driftHistory |-> <<>>,
     averageDrift |-> [num |-> 0, den |-> 1],
     maxDrift |-> 0,
     totalCorrections |-> 0,
     qualityScore |-> [num |-> 1, den |-> 1]]

updateMetrics(q) ==
    IF Len(q.driftHistory) = 0 THEN q
    ELSE LET sum == SumSeq(q.driftHistory)
             n == Len(q.driftHistory)
         IN [q EXCEPT !.averageDrift = [num |-> sum, den |-> n],
                      !.maxDrift = MaxSeq(q.driftHistory),
                      !.qualityScore =
                          IF TargetAccuracy * n >= sum + n
                          THEN [num |-> 1, den |-> 1]
                          ELSE [num |-> TargetAccuracy * n, den |-> sum + n]]

\* recordDrift that never trims the history
recordDrift_noTrim(q, drift) ==
    updateMetrics([q EXCEPT !.driftHistory = Append(q.driftHistory, Abs(drift))])

recordDrift(q, drift) ==
    LET pushed == Append(q.driftHistory, Abs(drift))
        kept == IF Len(pushed) > DriftHistoryCap
                THEN SliceLast(pushed, DriftHistoryKeep) ELSE pushed
    IN updateMetrics([q EXCEPT !.driftHistory = kept])

recordCorrection(q) == [q EXCEPT !.totalCorrections = @ + 1]

(***************************************************************************)
(* PrecisionTimer                                                          *)
(***************************************************************************)
DefaultUpdateInterval == 1000
MinUpdateInterval == 50
MaxUpdateInterval == 2000
SetIntervalMin == 100
SetIntervalMax == 5000
DriftThreshold == 30
\* adaptiveStep 0.05 as a fraction of AdaptiveStepDen
AdaptiveStepNum == 5
AdaptiveStepDen == 100
GoodUpdatesToGrow == 10
MaxConsecutiveErrors == 5
\* microseconds per millisecond: the unit of adaptiveInterval and of a timer's delay
Micro == 1000

StoppedState ==
    [isRunning |-> FALSE, startTime |-> NULL, pausedTime |-> 0,
     lastUpdateTime |-> 0, taskId |-> NULL]

PrecisionTimerInit ==
    [state |-> StoppedState,
     intervalId |-> NULL,
     updateInterval |-> DefaultUpdateInterval,
     qualityMonitor |-> QualityMonitorInit,
     adaptiveInterval |-> DefaultUpdateInterval * Micro,
     consecutiveGoodUpdates |-> 0,
     consecutiveErrors |-> 0,
     hostTimers |-> {}]

\* window.setInterval / setTimeout hand out ids that identify one pending
\* timer; an id is never that of another pending timer nor the one the object
\* still holds.
HostTimerIds == 1..3
FreshTimerId(t) ==
    CHOOSE i \in HostTimerIds :
        /\ i # t.intervalId
        /\ \A h \in t.hostTimers : h.id # i
        /\ \A j \in HostTimerIds :
              (j # t.intervalId /\ \A h \in t.hostTimers : h.id # j) => i <= j

\* clearInterval(id) / clearTimeout(id): a stale or unknown id is ignored
clearInterval(timers, id) == {h \in timers : h.id # id}

startInterval(t, clock) ==
    LET cleared == IF t.intervalId # NULL
                   THEN clearInterval(t.hostTimers, t.intervalId) ELSE t.hostTimers
        id == FreshTimerId(t)
    IN [t EXCEPT !.intervalId = id,
                 !.hostTimers = cleared \cup
                     {[id |-> id, kind |-> "interval",
                       delay |-> t.updateInterval * Micro, armedAt |-> clock]}]

stopInterval(t) ==
    IF t.intervalId # NULL
    THEN [t EXCEPT !.hostTimers = clearInterval(t.hostTimers, t.intervalId),
                   !.intervalId = NULL]
    ELSE t

scheduleNextUpdate(t, clock) ==
    LET cleared == IF t.intervalId # NULL
                   THEN clearInterval(t.hostTimers, t.intervalId) ELSE t.hostTimers
        id == FreshTimerId(t)
    IN [t EXCEPT !.intervalId = id,
                 !.hostTimers = cleared \cup
                     {[id |-> id, kind |-> "timeout",
                       delay |-> t.adaptiveInterval, armedAt |-> clock]}]

getTotalSeconds(t, clock) ==
    IF ~t.state.isRunning \/ t.state.startTime = NULL
    THEN RoundSeconds(t.state.pausedTime)
    ELSE RoundSeconds(t.state.pausedTime + (clock - t.state.startTime))

\* start() without its isRunning guard
start_unguarded(t, clock, taskId, initialTime) ==
    startInterval(
        [t EXCEPT !.state = [isRunning |-> TRUE, startTime |-> clock,
                             pausedTime |-> initialTime * 1000,
                             lastUpdateTime |-> clock, taskId |-> taskId]],
        clock)

start(t, clock, taskId, initialTime) ==
    IF t.state.isRunning THEN t
    ELSE startInterval(
             [t EXCEPT !.state = [isRunning |-> TRUE, startTime |-> clock,
                                  pausedTime |-> initialTime * 1000,
                                  lastUpdateTime |-> clock, taskId |-> taskId]],
             clock)

\* pause() that resets the task id as stop() does
pause_dropsTask(t, clock) ==
    IF ~t.state.isRunning THEN t
    ELSE stopInterval([t EXCEPT !.state.isRunning = FALSE, !.state.taskId = NULL])

\* pause() as the object after the call; its return value is pauseResult
pause(t, clock) ==
    IF ~t.state.isRunning THEN t
    ELSE stopInterval([t EXCEPT !.state.isRunning = FALSE])

\* pause() that reads the total before it clears isRunning
pauseResult_whileRunning(t, clock) == getTotalSeconds(t, clock)

pauseResult(t, clock) ==
    IF ~t.state.isRunning THEN getTotalSeconds(t, clock)
    ELSE getTotalSeconds(pause(t, clock), clock)

resume(t, clock) ==
    IF t.state.isRunning THEN t
    ELSE IF t.state.taskId = NULL THEN t
    ELSE startInterval(
             [t EXCEPT !.state.isRunning = TRUE, !.state.startTime = clock,
                       !.state.lastUpdateTime = clock],
             clock)

\* setUpdateInterval(interval) whose guard has no upper limit
setUpdateInterval_noUpperLimit(t, clock, interval) ==
    IF interval < SetIntervalMin THEN t
    ELSE LET t1 == [t EXCEPT !.updateInterval = interval]
         IN IF t1.state.isRunning THEN startInterval(stopInterval(t1), clock) ELSE t1

setUpdateInterval(t, clock, interval) ==
    IF interval < SetIntervalMin \/ interval > SetIntervalMax THEN t
    ELSE LET t1 == [t EXCEPT !.updateInterval = interval]
         IN IF t1.state.isRunning THEN startInterval(stopInterval(t1), clock) ELSE t1

stop(t, clock) == stopInterval([t EXCEPT !.state = StoppedState])

stopResult(t, clock) == getTotalSeconds(t, clock)


handleTimerError(t) ==
    LET n == t.consecutiveErrors + 1
        r == IF n >= MaxConsecutiveErrors
             THEN [t EXCEPT !.qualityMonitor = QualityMonitorInit,
                            !.adaptiveInterval = DefaultUpdateInterval * Micro,
                            !.consecutiveErrors = 0]
             ELSE [t EXCEPT !.consecutiveErrors = n]
    IN [r EXCEPT !.adaptiveInterval =
                     Max((r.adaptiveInterval * 9) \div 10, MinUpdateInterval * Micro)]

\* getTimerStatus(): the quality score against 0.9, 0.7 and 0.5
getTimerStatus(q) ==
    IF q.qualityScore.num * 10 >= 9 * q.qualityScore.den THEN "excellent"
    ELSE IF q.qualityScore.num * 10 >= 7 * q.qualityScore.den THEN "good"
    ELSE IF q.qualityScore.num * 2 >= q.qualityScore.den THEN "fair"
    ELSE "poor"

resetQualityMonitoring(t) ==
    [t EXCEPT !.qualityMonitor = QualityMonitorInit,
              !.adaptiveInterval = DefaultUpdateInterval * Micro,
              !.consecutiveGoodUpdates = 0]

\* optimizePerformance() that shortens the interval without the lower limit
optimizePerformance_noLowerLimit(t) ==
    LET status == getTimerStatus(t.qualityMonitor)
    IN IF status = "excellent"
       THEN [t EXCEPT !.adaptiveInterval =
                          Min((t.adaptiveInterval * 12) \div 10, MaxUpdateInterval * Micro)]
       ELSE IF status = "poor"
       THEN [t EXCEPT !.adaptiveInterval = (t.adaptiveInterval * 7) \div 10]
       ELSE t

optimizePerformance(t) ==
    LET status == getTimerStatus(t.qualityMonitor)
    IN IF status = "excellent"
       THEN [t EXCEPT !.adaptiveInterval =
                          Min((t.adaptiveInterval * 12) \div 10, MaxUpdateInterval * Micro)]
       ELSE IF status = "poor"
       THEN [t EXCEPT !.adaptiveInterval =
                          Max((t.adaptiveInterval * 7) \div 10, MinUpdateInterval * Micro)]
       ELSE t

\* The TimerEvent built at lines 425-432
TimerEvent(t, clock, drift) ==
    [totalTime |-> RoundSeconds(t.state.pausedTime),
     drift |-> drift,
     timestamp |-> clock,
     state |-> IF t.state.isRunning THEN "running" ELSE "stopped",
     qualityScore |-> t.qualityMonitor.qualityScore,
     lastUpdate |-> clock]

\* A subscriber is a function of the event; what it does with the timer when
\* called is its reaction: nothing, a call of pause(), a call of stop(), or
\* throwing.
Reactions == {"none", "pause", "stop", "throw"}

\* listeners.forEach with the try/catch around each call: every listener is
\* called in insertion order; log records each call and what the listener
\* could observe of the timer when it was called.
RECURSIVE notifyListeners(_, _, _, _, _)
notifyListeners(t, clock, event, reactions, log) ==
    IF reactions = <<>> THEN [timer |-> t, delivered |-> log]
    ELSE LET r == Head(reactions)
             entry == [listener |-> Len(log) + 1,
                       event |-> event,
                       timerRunning |-> t.state.isRunning,
                       taskId |-> t.state.taskId,
                       totalSeconds |-> getTotalSeconds(t, clock),
                       threw |-> r = "throw"]
             after == CASE r = "pause" -> pause(t, clock)
                        [] r = "stop" -> stop(t, clock)
                        [] OTHER -> t
         IN notifyListeners(after, clock, event, Tail(reactions), Append(log, entry))

\* updateTimer(): the callback setInterval / setTimeout runs.  fails says
\* that reading the clock at line 384 throws, which is what the catch at line
\* 442 handles.  The result is the object after the callback, whether the
\* guard at line 379 let the tick through, the deliveries made and the event.
updateTimer(t, clock, fails, reactions) ==
    IF ~t.state.isRunning \/ t.state.startTime = NULL
    THEN [timer |-> t, processed |-> FALSE, failed |-> FALSE, delivered |-> <<>>,
          event |-> NULL]
    ELSE IF fails
    THEN [timer |-> handleTimerError(t), processed |-> TRUE, failed |-> TRUE,
          delivered |-> <<>>, event |-> NULL]
    ELSE
    LET \* elapsed = (now - startTime - pausedTime) / 1000
        \* expectedTime = pausedTime / 1000 + elapsed, in ms:
        expectedMs == t.state.pausedTime + (clock - t.state.startTime - t.state.pausedTime)
        \* drift = (expectedTime - pausedTime / 1000) * 1000
        drift == expectedMs - t.state.pausedTime
        q1 == recordDrift(t.qualityMonitor, drift)
        corrects == Abs(drift) > DriftThreshold
        good == t.consecutiveGoodUpdates + 1
        t1 == IF corrects
              THEN [t EXCEPT !.state.pausedTime = expectedMs,
                             !.qualityMonitor = recordCorrection(q1),
                             !.consecutiveGoodUpdates = 0,
                             !.adaptiveInterval =
                                 Max((t.adaptiveInterval * (AdaptiveStepDen - AdaptiveStepNum))
                                         \div AdaptiveStepDen,
                                     MinUpdateInterval * Micro)]
              ELSE [t EXCEPT !.state.pausedTime = expectedMs,
                             !.qualityMonitor = q1,
                             !.consecutiveGoodUpdates =
                                 IF good >= GoodUpdatesToGrow THEN 0 ELSE good,
                             !.adaptiveInterval =
                                 IF good >= GoodUpdatesToGrow
                                 THEN Min((t.adaptiveInterval * (AdaptiveStepDen + AdaptiveStepNum))
                                              \div AdaptiveStepDen,
                                          MaxUpdateInterval * Micro)
                                 ELSE t.adaptiveInterval]
        t2 == scheduleNextUpdate(t1, clock)
        event == TimerEvent(t2, clock, drift)
        sent == notifyListeners(t2, clock, event, reactions, <<>>)
    IN [timer |-> sent.timer, processed |-> TRUE, failed |-> FALSE,
        delivered |-> sent.delivered, event |-> event]

(***************************************************************************)
(* IdleDetector.  Confidence levels are kept in hundredths and the fused   *)
(* confidence (weights 0.4, 0.3, 0.2, 0.1) in thousandths; over the levels *)
(* the four checks can return, the comparisons the code makes with 0.7,    *)
(* 0.8 and 0.9 in floating point agree with these integers.  A learned     *)
(* pattern value, 0.8 * old + 0.2 * new, is kept in whole milliseconds.    *)
(***************************************************************************)
LOW == 30
MEDIUM == 70
HIGH == 90
VERY_HIGH == 100
\* a level, or a floor given as a level, in the unit of the fused confidence
Fused(level) == level * 10

\* The options the global instance is built with (lines 642-650)
IdleThreshold == 300000
BaseCheckInterval == 1000
ShowResumeConfirmation == TRUE
UseAdaptiveInterval == TRUE
HistoryRetentionPeriod == 3600000
UseMultiLevelVerification == TRUE
MinimumConfidence == Fused(MEDIUM)

MaxPlausibleIdle == 86400000
ActivityDebounce == 1000
ActivityHistoryCap == 1000
ActivityHistoryKeep == 500
MaxIdleErrors == 10
MaxErrorInterval == 10000
\* hour of the day at which the clock reads 0
StartHour == 9
MsPerHour == 3600000

TimeSlots == {0, 2, 4, 6, 8, 10, 12, 14, 16, 18, 20, 22}
\* `${Math.floor(hour / 2) * 2}-...`: a slot is named by its first hour
TimeSlot(clock) == (((StartHour + clock \div MsPerHour) % 24) \div 2) * 2

\* The constructor; absent map entries are NULL
IdleDetectorInit ==
    [isIdle |-> FALSE,
     checkInterval |-> NULL,
     currentCheckInterval |-> BaseCheckInterval,
     lastIdleTime |-> 0,
     lastActivity |-> 0,
     consecutiveErrors |-> 0,
     activityHistory |-> <<>>,
     consecutiveIdleChecks |-> 0,
     lastSystemIdleTime |-> 0,
     userActivityPatterns |-> [slot \in TimeSlots |-> NULL],
     hostTimers |-> {},
     inFlight |-> 0,
     activityHandlers |-> 0,
     callbacks |-> [i \in 1..NumIdleCallbacks |-> "none"]]

\* `map.get(slot) || fallback`: an absent entry and the number 0 are both falsy
PatternOr(d, slot, fallback) ==
    IF d.userActivityPatterns[slot] = NULL \/ d.userActivityPatterns[slot] = 0
    THEN fallback ELSE d.userActivityPatterns[slot]

updateActivityPattern(d, entry) ==
    LET slot == TimeSlot(entry.timestamp)
        existing == PatternOr(d, slot, entry.idleTime)
        updated == (existing * 8 + entry.idleTime * 2) \div 10
    IN [d EXCEPT !.userActivityPatterns[slot] = updated]

addActivityHistoryEntry(d, entry) ==
    LET d1 == updateActivityPattern(
                  [d EXCEPT !.activityHistory = Append(@, entry)], entry)
    IN IF Len(d1.activityHistory) > ActivityHistoryCap
       THEN [d1 EXCEPT !.activityHistory = SliceLast(@, ActivityHistoryKeep)]
       ELSE d1

verifySystemIdleTime(d, idleTime) ==
    IF idleTime < 0 \/ idleTime > MaxPlausibleIdle THEN LOW
    ELSE IF Abs(idleTime - d.lastSystemIdleTime) > d.currentCheckInterval * 2
            /\ d.lastSystemIdleTime > 0
    THEN MEDIUM
    ELSE HIGH

\* consistency = |expected - actual| / expected.  expected = 0 gives NaN or
\* Infinity, which fail every comparison; expected < 0 gives a quotient <= 0.
verifyTimeConsistency(d, clock, idleTime) ==
    IF Len(d.activityHistory) < 2 THEN MEDIUM
    ELSE LET lastEntry == d.activityHistory[Len(d.activityHistory)]
             expected == Min(clock - lastEntry.timestamp, idleTime)
             actual == idleTime - lastEntry.idleTime
             diff == Abs(expected - actual)
         IN IF expected = 0 THEN LOW
            ELSE IF expected < 0 THEN VERY_HIGH
            ELSE IF diff * 10 < expected THEN VERY_HIGH
            ELSE IF diff * 10 < expected * 3 THEN HIGH
            ELSE IF diff * 10 < expected * 5 THEN MEDIUM
            ELSE LOW

\* deviation = |idleTime - average| / average, with the same division rules
verifyActivityPattern(d, clock, idleTime) ==
    LET average == PatternOr(d, TimeSlot(clock), idleTime)
        diff == Abs(idleTime - average)
    IN IF average = 0 THEN LOW
       ELSE IF average < 0 THEN HIGH
       ELSE IF diff * 10 < average * 2 THEN HIGH
       ELSE IF diff * 10 < average * 5 THEN MEDIUM
       ELSE LOW

verifyCheckSequence(d) ==
    IF d.consecutiveIdleChecks < 3 THEN MEDIUM
    ELSE IF d.consecutiveIdleChecks >= 5 THEN VERY_HIGH
    ELSE HIGH

performMultiLevelVerification(d, clock, idleTime) ==
    IF ~UseMultiLevelVerification THEN Fused(HIGH)
    ELSE verifySystemIdleTime(d, idleTime) * 4
         + verifyTimeConsistency(d, clock, idleTime) * 3
         + verifyActivityPattern(d, clock, idleTime) * 2
         + verifyCheckSequence(d) * 1

\* The call made to subscriber i; callbacks[i] is what the subscriber does
\* when called: nothing, or throwing
CallbackCall(callbacks, i, isIdle, idleTime, confidence) ==
    [callback |-> i, isIdle |-> isIdle, idleTime |-> idleTime,
     confidence |-> confidence, threw |-> callbacks[i] = "throw"]

\* callbacks.forEach without the try/catch: the first subscriber that throws
\* ends the loop
notifyCallbacks_noCatch(callbacks, isIdle, idleTime, confidence) ==
    LET throwers == {i \in DOMAIN callbacks : callbacks[i] = "throw"}
        last == IF throwers = {} THEN Len(callbacks)
                ELSE CHOOSE i \in throwers : \A j \in throwers : i <= j
    IN [i \in 1..last |-> CallbackCall(callbacks, i, isIdle, idleTime, confidence)]

\* The detector's subscribers are called in insertion order, each inside its
\* own try/catch; the result is the list of calls made.
notifyCallbacks(callbacks, isIdle, idleTime, confidence) ==
    [i \in 1..Len(callbacks) |->
        CallbackCall(callbacks, i, isIdle, idleTime, confidence)]

handleIdleStart(callbacks, idleTime, confidence) ==
    notifyCallbacks(callbacks, TRUE, idleTime, confidence)

handleActivityResume(callbacks, confidence) ==
    notifyCallbacks(callbacks, FALSE, 0, confidence)

FreshIdleTimerId(d) ==
    CHOOSE i \in HostTimerIds :
        /\ i # d.checkInterval
        /\ \A h \in d.hostTimers : h.id # i
        /\ \A j \in HostTimerIds :
              (j # d.checkInterval /\ \A h \in d.hostTimers : h.id # j) => i <= j

startChecking(d, clock) ==
    LET id == FreshIdleTimerId(d)
    IN [d EXCEPT !.checkInterval = id,
                 !.hostTimers = @ \cup
                     {[id |-> id, kind |-> "interval",
                       delay |-> d.currentCheckInterval * Micro, armedAt |-> clock]}]

restartWithNewInterval(d, clock) ==
    IF d.checkInterval # NULL
    THEN startChecking(
             [d EXCEPT !.hostTimers = clearInterval(@, d.checkInterval)], clock)
    ELSE d

\* calculateOptimalInterval() giving an active system past half the
\* threshold the interval of an idle one
calculateOptimalInterval_slowWhenActive(isIdle, idleTime) ==
    IF isIdle
    THEN IF idleTime > IdleThreshold * 3 THEN BaseCheckInterval * 5
         ELSE IF idleTime > IdleThreshold * 2 THEN BaseCheckInterval * 3
         ELSE BaseCheckInterval * 2
    ELSE IF idleTime * 2 < IdleThreshold THEN BaseCheckInterval
         ELSE BaseCheckInterval * 2

\* baseCheckInterval * 1.5 is (base * 3) / 2; idleThreshold * 0.5 is compared doubled
calculateOptimalInterval(isIdle, idleTime) ==
    IF isIdle
    THEN IF idleTime > IdleThreshold * 3 THEN BaseCheckInterval * 5
         ELSE IF idleTime > IdleThreshold * 2 THEN BaseCheckInterval * 3
         ELSE BaseCheckInterval * 2
    ELSE IF idleTime * 2 < IdleThreshold THEN BaseCheckInterval
         ELSE (BaseCheckInterval * 3) \div 2

adjustCheckInterval(d, clock, isIdle, idleTime) ==
    IF ~UseAdaptiveInterval THEN d
    ELSE LET newInterval == calculateOptimalInterval(isIdle, idleTime)
         IN IF newInterval # d.currentCheckInterval
            THEN restartWithNewInterval(
                     [d EXCEPT !.currentCheckInterval = newInterval], clock)
            ELSE d

cleanupOldHistory(d, clock) ==
    [d EXCEPT !.activityHistory =
        SelectSeq(@, LAMBDA e : e.timestamp > clock - HistoryRetentionPeriod)]

getRecentActivityHistory(d, clock) ==
    SelectSeq(d.activityHistory, LAMBDA e : e.timestamp > clock - HistoryRetentionPeriod)

\* handleCheckError() doubling the interval without the 10 s cap
handleCheckError_uncapped(d, clock) ==
    LET n == d.consecutiveErrors + 1
        d1 == IF n >= MaxIdleErrors
              THEN [restartWithNewInterval(
                        [d EXCEPT !.currentCheckInterval = d.currentCheckInterval * 2],
                        clock)
                    EXCEPT !.consecutiveErrors = 0]
              ELSE [d EXCEPT !.consecutiveErrors = n]
    IN addActivityHistoryEntry(d1,
           [timestamp |-> clock, idleTime |-> d.lastIdleTime,
            confidence |-> Fused(LOW), source |-> "estimated"])

handleCheckError(d, clock) ==
    LET n == d.consecutiveErrors + 1
        d1 == IF n >= MaxIdleErrors
              THEN [restartWithNewInterval(
                        [d EXCEPT !.currentCheckInterval =
                                      Min(d.currentCheckInterval * 2, MaxErrorInterval)],
                        clock)
                    EXCEPT !.consecutiveErrors = 0]
              ELSE [d EXCEPT !.consecutiveErrors = n]
    IN addActivityHistoryEntry(d1,
           [timestamp |-> clock, idleTime |-> d.lastIdleTime,
            confidence |-> Fused(LOW), source |-> "estimated"])

\* Lines 257-289 of performIdleCheck: what a check at or above the floor does
acceptIdleCheck(d0, clock, systemIdleTime, confidence) ==
    LET wasIdle == d0.isIdle
        isCurrentlyIdle == systemIdleTime >= IdleThreshold
        d1 == addActivityHistoryEntry(
                  [d0 EXCEPT !.lastIdleTime = systemIdleTime,
                             !.lastSystemIdleTime = systemIdleTime],
                  [timestamp |-> clock, idleTime |-> systemIdleTime,
                   confidence |-> confidence, source |-> "system"])
        d2 == IF wasIdle # isCurrentlyIdle
              THEN [d1 EXCEPT !.isIdle = isCurrentlyIdle,
                              !.consecutiveIdleChecks =
                                  IF isCurrentlyIdle THEN @ + 1 ELSE 0]
              ELSE IF isCurrentlyIdle
              THEN [d1 EXCEPT !.consecutiveIdleChecks = @ + 1]
              ELSE d1
        notified == IF wasIdle = isCurrentlyIdle THEN <<>>
                    ELSE IF isCurrentlyIdle
                    THEN handleIdleStart(d0.callbacks, systemIdleTime, confidence)
                    ELSE handleActivityResume(d0.callbacks, confidence)
        d3 == adjustCheckInterval(d2, clock, isCurrentlyIdle, systemIdleTime)
    IN [detector |-> cleanupOldHistory(d3, clock), confidence |-> confidence,
        notified |-> notified]

\* performIdleCheck() without the confidence floor of lines 252-255
performIdleCheck_noFloor(d, clock, failed, systemIdleTime) ==
    IF failed
    THEN [detector |-> handleCheckError(d, clock), confidence |-> NULL,
          notified |-> <<>>]
    ELSE acceptIdleCheck([d EXCEPT !.consecutiveErrors = 0], clock, systemIdleTime,
                         performMultiLevelVerification(d, clock, systemIdleTime))

\* performIdleCheck() from the moment the idle-duration query settles:
\* failed says the query rejected, systemIdleTime is what it resolved to.
\* The result is the detector after the check, the fused confidence (NULL
\* when the query failed) and the subscriber calls made.
performIdleCheck(d, clock, failed, systemIdleTime) ==
    IF failed
    THEN [detector |-> handleCheckError(d, clock), confidence |-> NULL,
          notified |-> <<>>]
    ELSE
    LET confidence == performMultiLevelVerification(d, clock, systemIdleTime)
        d0 == [d EXCEPT !.consecutiveErrors = 0]
    IN IF confidence < MinimumConfidence
       THEN [detector |-> d0, confidence |-> confidence, notified |-> <<>>]
       ELSE acceptIdleCheck(d0, clock, systemIdleTime, confidence)

resetState(d, clock) ==
    [d EXCEPT !.isIdle = FALSE, !.lastIdleTime = 0, !.lastActivity = clock,
              !.consecutiveErrors = 0, !.currentCheckInterval = BaseCheckInterval,
              !.consecutiveIdleChecks = 0, !.lastSystemIdleTime = 0,
              !.activityHistory = <<>>]

\* addEventListener with a function made by bind() at the call adds one more
\* handler for each of the three event types
initializeUserActivityTracking(d) == [d EXCEPT !.activityHandlers = @ + 1]

\* removeEventListener is given another function made by bind(), which is
\* none of those added: nothing is removed
cleanupUserActivityTracking(d) == d

idleStart(d, clock) ==
    IF d.checkInterval # NULL THEN d
    ELSE initializeUserActivityTracking(startChecking(resetState(d, clock), clock))

idleStop(d) ==
    IF d.checkInterval # NULL
    THEN cleanupUserActivityTracking(
             [d EXCEPT !.hostTimers = clearInterval(@, d.checkInterval),
                       !.checkInterval = NULL])
    ELSE d

\* resetActivity() and onUserActivity(): the detector after the call and
\* the subscriber calls made
resetActivity(d, clock) ==
    LET d1 == addActivityHistoryEntry(
                  [d EXCEPT !.lastActivity = clock, !.consecutiveIdleChecks = 0],
                  [timestamp |-> clock, idleTime |-> 0,
                   confidence |-> Fused(VERY_HIGH), source |-> "user"])
    IN [detector |-> d1,
        notified |-> IF d.isIdle
                     THEN handleActivityResume(d.callbacks, Fused(VERY_HIGH))
                     ELSE <<>>]

onUserActivity(d, clock) ==
    IF clock - d.lastActivity < ActivityDebounce
    THEN [detector |-> d, notified |-> <<>>]
    ELSE LET d1 == addActivityHistoryEntry(
                       [d EXCEPT !.lastActivity = clock],
                       [timestamp |-> clock, idleTime |-> 0,
                        confidence |-> Fused(VERY_HIGH), source |-> "user"])
         IN [detector |-> d1,
             notified |-> IF d.isIdle
                          THEN handleActivityResume(d.callbacks, Fused(VERY_HIGH))
                          ELSE <<>>]

\* calculateCurrentConfidence(): the mean over the last five entries, as
\* [num, den] in thousandths
calculateCurrentConfidence(d) ==
    IF Len(d.activityHistory) = 0 THEN [num |-> Fused(MEDIUM), den |-> 1]
    ELSE LET recent == SliceLast(d.activityHistory, 5)
         IN [num |-> SumSeq([i \in 1..Len(recent) |-> recent[i].confidence]),
             den |-> Len(recent)]

getIdleStatus(d, clock) ==
    [isIdle |-> d.isIdle,
     idleTime |-> d.lastIdleTime,
     threshold |-> IdleThreshold,
     lastActivity |-> d.lastActivity,
     confidence |-> calculateCurrentConfidence(d),
     verificationMethod |->
         IF UseMultiLevelVerification THEN "multi-level" ELSE "system-only",
     activityHistory |-> getRecentActivityHistory(d, clock),
     consecutiveIdleChecks |-> d.consecutiveIdleChecks]

(***************************************************************************)
(* The main process: BackgroundProcessManager and the ipcMain registry.    *)
(* A Map is the function from its keys to its values.  A key of            *)
(* pendingResumeSuggestions is a task id or an object (a record of         *)
(* suspendedTimers); an object is told apart by the task it was made for   *)
(* and its contents.                                                       *)
(***************************************************************************)
InactiveThreshold == 900000
SuggestionThreshold == 300000
ActivityRetention == 86400000
PeriodicTaskCount == 3

SystemSuspendReason == "System suspend"
InactivityReason == "Extended inactivity detected (normal load)"
ActivityDetectedText == "System activity detected after timer suspension"

\* The payload of a message to the window: the object's field that holds
\* task ids, those ids, and its reason and timestamp fields; Undefined is
\* no payload
Payload(field, tasks, reason, clock) ==
    [defined |-> TRUE, field |-> field, tasks |-> tasks, reason |-> reason,
     timestamp |-> clock]
Undefined ==
    [defined |-> FALSE, field |-> "", tasks |-> {}, reason |-> "", timestamp |-> NULL]

IdKey(taskId) == [id |-> taskId, owner |-> NULL, timestamp |-> NULL, reason |-> ""]
ObjectKey(owner, record) ==
    [id |-> NULL, owner |-> owner, timestamp |-> record.timestamp,
     reason |-> record.reason]

EmptyMap == [k \in {} |-> 0]
MapSet(map, k, v) == [x \in DOMAIN map \cup {k} |-> IF x = k THEN v ELSE map[x]]
MapDelete(map, k) == [x \in DOMAIN map \ {k} |-> map[x]]

\* The coordinator's fields at construction and ipcMain with no handler
MainInit ==
    [isInitialized |-> FALSE,
     activeTimers |-> EmptyMap,
     suspendedTimers |-> EmptyMap,
     lastActivityTimes |-> EmptyMap,
     pendingResumeSuggestions |-> EmptyMap,
     periodicTasks |-> 0,
     handlers |-> EmptyMap,
     mainWindow |-> FALSE,
     tasks |-> [t \in TaskIds |-> formatTime(0)]]

\* ipcMain.handle(channel, handler): a second handler for a channel throws.
\* The result is the registry and whether the call threw.
ipcHandle(m, channel, handler) ==
    IF channel \in DOMAIN m.handlers
    THEN [main |-> m, threw |-> TRUE]
    ELSE [main |-> [m EXCEPT !.handlers = MapSet(@, channel, handler)], threw |-> FALSE]

setupPeriodicTasks(m) == [m EXCEPT !.periodicTasks = @ + PeriodicTaskCount]

\* ipcMain.handle for each of `entries` in order, up to the first that throws
RECURSIVE ipcHandleAll(_, _)
ipcHandleAll(m, entries) ==
    IF entries = <<>> THEN [main |-> m, threw |-> FALSE]
    ELSE IF entries[1][1] \in DOMAIN m.handlers THEN [main |-> m, threw |-> TRUE]
    ELSE ipcHandleAll(ipcHandle(m, entries[1][1], entries[1][2]).main, Tail(entries))

setupActivityMonitoring(m) ==
    ipcHandleAll(m, << <<"register-timer-activity", "registerTimerActivity">>,
                       <<"unregister-timer-activity", "unregisterTimerActivity">>,
                       <<"handle-system-suspend", "handleSystemSuspend">>,
                       <<"handle-system-resume", "handleSystemResume">> >>)

initialize(m) ==
    IF m.isInitialized THEN [main |-> m, threw |-> FALSE]
    ELSE LET r == setupActivityMonitoring(setupPeriodicTasks(m))
         IN IF r.threw THEN r
            ELSE [main |-> [r.main EXCEPT !.isInitialized = TRUE], threw |-> FALSE]

registerTimerActivity(m, clock, taskId) ==
    [m EXCEPT !.activeTimers =
                  MapSet(@, taskId, [startTime |-> clock, lastActivity |-> clock]),
              !.lastActivityTimes = MapSet(@, taskId, clock)]

unregisterTimerActivity(m, taskId) ==
    [m EXCEPT !.activeTimers = MapDelete(@, taskId),
              !.lastActivityTimes = MapDelete(@, taskId),
              !.suspendedTimers = MapDelete(@, taskId),
              !.pendingResumeSuggestions = MapDelete(@, IdKey(taskId))]

\* webContents.send through the module's mainWindow
SendToWindow(m, channel, payload) ==
    IF m.mainWindow THEN <<[channel |-> channel, payload |-> payload]>> ELSE <<>>

\* handleSystemSuspend(): the coordinator after it, the messages it sent and
\* what it returned
handleSystemSuspendMain(m, clock) ==
    LET suspendedList == DOMAIN m.lastActivityTimes
        m1 == [m EXCEPT !.suspendedTimers =
                   [t \in DOMAIN @ \cup suspendedList |->
                       IF t \in suspendedList
                       THEN [timestamp |-> clock, reason |-> SystemSuspendReason]
                       ELSE @[t]]]
    IN [main |-> m1,
        sent |-> IF suspendedList # {}
                 THEN SendToWindow(m, "system-suspend",
                                   Payload("suspendedTasks", suspendedList, "", clock))
                 ELSE <<>>,
        returned |-> Undefined]

\* handleSystemResume() removing every record whatever its reason
handleSystemResumeMain_anyReason(m, clock) ==
    LET resumedList == DOMAIN m.suspendedTimers
        m1 == [m EXCEPT !.suspendedTimers = [t \in DOMAIN @ \ resumedList |-> @[t]]]
    IN [main |-> m1,
        sent |-> IF resumedList # {}
                 THEN SendToWindow(m, "system-resume",
                                   Payload("resumedTasks", resumedList, "", clock))
                 ELSE <<>>,
        returned |-> Undefined]

handleSystemResumeMain(m, clock) ==
    LET resumedList == {t \in DOMAIN m.suspendedTimers :
                            m.suspendedTimers[t].reason = SystemSuspendReason}
        m1 == [m EXCEPT !.suspendedTimers = [t \in DOMAIN @ \ resumedList |-> @[t]]]
    IN [main |-> m1,
        sent |-> IF resumedList # {}
                 THEN SendToWindow(m, "system-resume",
                                   Payload("resumedTasks", resumedList, "", clock))
                 ELSE <<>>,
        returned |-> Undefined]

suggestTimerPause(m, clock, taskId, reason) ==
    IF taskId \in DOMAIN m.suspendedTimers THEN [main |-> m, sent |-> <<>>]
    ELSE [main |-> [m EXCEPT !.suspendedTimers =
                        MapSet(@, taskId, [timestamp |-> clock, reason |-> reason])],
          sent |-> SendToWindow(m, "timer-pause-suggestion",
                                Payload("taskId", {taskId}, reason, clock))]

\* monitorActiveTimers(): getCPUUsage and getMemoryUsage both give 0.5, so
\* the load is 0.5, the interval is kept and the warning level is normal
RECURSIVE monitorActiveTimers(_, _, _, _)
monitorActiveTimers(m, clock, pending, sent) ==
    IF pending = {} THEN [main |-> m, sent |-> sent]
    ELSE LET taskId == CHOOSE t \in pending : \A u \in pending : t <= u
             r == IF clock - m.lastActivityTimes[taskId] > InactiveThreshold
                     /\ taskId \notin DOMAIN m.suspendedTimers
                  THEN suggestTimerPause(m, clock, taskId, InactivityReason)
                  ELSE [main |-> m, sent |-> <<>>]
         IN monitorActiveTimers(r.main, clock, pending \ {taskId}, sent \o r.sent)

\* generateResumeSuggestions(): the forEach callback names its first
\* argument taskId, and Map.forEach passes the value first: the key looked
\* up and set in pendingResumeSuggestions is the record object
generateResumeSuggestions(m, systemIdleTime) ==
    LET keys == {ObjectKey(t, m.suspendedTimers[t]) : t \in DOMAIN m.suspendedTimers}
        added == {k \in keys : k \notin DOMAIN m.pendingResumeSuggestions
                                /\ systemIdleTime < SuggestionThreshold}
    IN [m EXCEPT !.pendingResumeSuggestions =
                     [k \in DOMAIN @ \cup added |->
                         IF k \in added THEN ActivityDetectedText ELSE @[k]]]

RECURSIVE cleanupOldActivityRecords(_, _, _)
cleanupOldActivityRecords(m, clock, pending) ==
    IF pending = {} THEN m
    ELSE LET taskId == CHOOSE t \in pending : \A u \in pending : t <= u
         IN cleanupOldActivityRecords(
                IF m.lastActivityTimes[taskId] < clock - ActivityRetention
                THEN unregisterTimerActivity(m, taskId) ELSE m,
                clock, pending \ {taskId})

\* checkInactiveTimers and validateDataIntegrity only log
performMaintenanceTasks(m, clock) ==
    cleanupOldActivityRecords(m, clock, DOMAIN m.lastActivityTimes)

getBackgroundStats(m) ==
    [activeTimers |-> Cardinality(DOMAIN m.activeTimers),
     suspendedTimers |-> Cardinality(DOMAIN m.suspendedTimers),
     pendingResumeSuggestions |-> Cardinality(DOMAIN m.pendingResumeSuggestions)]

\* createWindow and setupIpcHandlers: mainWindow is set and the handlers of
\* lines 632-638 and 714 are registered
setupIpcHandlers(m) ==
    ipcHandleAll([m EXCEPT !.mainWindow = TRUE],
                 << <<"get-background-stats", "getBackgroundStats">>,
                    <<"register-timer-activity", "initialize">>,
                    <<"update-task-time", "updateTaskTime">> >>).main

\* app.whenReady: the windows and handlers, then initialize(); what it throws
\* ends the callback
whenReady(m) == initialize(setupIpcHandlers(m)).main

\* /^([0-9]{1,2}):([0-5][0-9]):([0-5][0-9])$/ tested on the text
isValidTimeFormat(text) ==
    /\ Len(text) = 3
    /\ Len(text[1]) \in 1..2
    /\ IsDigits(text[1])
    /\ \A g \in 2..3 : /\ Len(text[g]) = 2
                       /\ IsDigits(text[g])
                       /\ text[g][1] <= 5

\* The update-task-time handler: the store's tasks after it and the boolean
\* it returns.  A duration below the stored one is logged and written.
updateTaskTime(m, taskId, newTime) ==
    IF taskId <= 0 THEN [main |-> m, returned |-> FALSE]
    ELSE IF newTime = <<<<>>>> THEN [main |-> m, returned |-> FALSE]
    ELSE IF ~isValidTimeFormat(newTime) THEN [main |-> m, returned |-> FALSE]
    ELSE IF taskId \notin DOMAIN m.tasks THEN [main |-> m, returned |-> FALSE]
    ELSE [main |-> [m EXCEPT !.tasks[taskId] = newTime], returned |-> TRUE]

\* ipcRenderer.invoke(channel, taskId, payload) arriving in the main
\* process: the main process after the handler and whether the invoke is
\* rejected
invokeMain(m, clock, channel, taskId, payload) ==
    IF channel \notin DOMAIN m.handlers THEN [main |-> m, rejected |-> TRUE]
    ELSE LET handler == m.handlers[channel]
         IN CASE handler = "initialize" ->
                     LET r == initialize(m) IN [main |-> r.main, rejected |-> r.threw]
              [] handler = "registerTimerActivity" ->
                     [main |-> registerTimerActivity(m, clock, taskId), rejected |-> FALSE]
              [] handler = "unregisterTimerActivity" ->
                     [main |-> unregisterTimerActivity(m, taskId), rejected |-> FALSE]
              [] handler = "updateTaskTime" ->
                     [main |-> updateTaskTime(m, taskId, payload).main,
                      rejected |-> FALSE]
              [] OTHER -> [main |-> m, rejected |-> FALSE]

\* The powerMonitor handlers of lines 1189-1211: the coordinator's method,
\* then its return value sent on the same channel
powerSuspend(m, clock) ==
    LET r == handleSystemSuspendMain(m, clock)
    IN [main |-> r.main,
        sent |-> r.sent \o <<[channel |-> "system-suspend", payload |-> r.returned]>>]

powerResume(m, clock) ==
    LET r == handleSystemResumeMain(m, clock)
    IN [main |-> r.main,
        sent |-> r.sent \o <<[channel |-> "system-resume", payload |-> r.returned]>>]

(***************************************************************************)
(* useTaskTimer.  One hook per task, all sharing globalTimer and the       *)
(* idleDetector.  A handler works on the renderer's world w: the timer,    *)
(* the detector, the hooks' state, the ipc messages sent (sent), the       *)
(* calls of globalTimer.pause() / stop() made (halts), and the hooks whose *)
(* updateTime callback is a new function at the next render (stale).       *)
(***************************************************************************)
UpdateThreshold == 3000
MaxRetries == 3
RetryDelay == 1000
TimerUpdateGap == 1000
SavePeriod == 30
PauseFloor == 700
ResumeFloor == 800

\* useState / useRef initial values; the refs start at 0 on the Date.now()
\* scale, i.e. long before the clock's origin: NULL
HookInit(initialSeconds) ==
    [mounted |-> TRUE,
     isRunning |-> FALSE,
     isIdle |-> FALSE,
     actualTime |-> formatTime(initialSeconds),
     hasError |-> FALSE,
     errorRetryCount |-> 0,
     lastSaveAttempt |-> NULL,
     saveRetryCount |-> 0,
     lastTimerUpdate |-> NULL]

\* rendered is the hooks' state at the last render: what the callbacks in
\* use have captured
World(timer, detector, hks, m, pending) ==
    [timer |-> timer, detector |-> detector, hooks |-> hks, rendered |-> hks,
     main |-> m, ipc |-> pending,
     sent |-> <<>>, halts |-> <<>>, notices |-> <<>>, received |-> <<>>]

\* What a callback made at the last render has captured of hook h
Captured(w, h) ==
    [hasError |-> w.rendered[h].hasError,
     retryCount |-> w.rendered[h].errorRetryCount]

\* ipcRenderer.invoke(channel, taskId, payload) by a callback that captured
\* `captured`: the main process runs the channel's handler, and the request
\* waits in ipc for its answer to reach the renderer.  forced notes the
\* forceUpdate argument of the updateTime call that sent it, attempt how
\* many retries of a write came before this request.
Send(w, clock, channel, taskId, payload, forced, captured) ==
    LET r == invokeMain(w.main, clock, channel, taskId, payload)
        request == [kind |-> "invoke", channel |-> channel, taskId |-> taskId,
                    payload |-> payload, rejected |-> r.rejected, sentAt |-> clock,
                    dueAt |-> NULL, captured |-> captured, attempt |-> 0]
    IN [w EXCEPT !.main = r.main,
                 !.ipc = Append(@, request),
                 !.sent = Append(@, [channel |-> channel, taskId |-> taskId,
                                     payload |-> payload, forced |-> forced])]

\* globalTimer.pause() / globalTimer.stop() called by handler `by`: the
\* timer after it, and a record of the call with its return value
HaltPause(w, clock, by) ==
    [w EXCEPT !.timer = pause(@, clock),
              !.halts = Append(@, [op |-> "pause", by |-> by,
                                   taskId |-> w.timer.state.taskId,
                                   wasRunning |-> w.timer.state.isRunning,
                                   ret |-> pauseResult(w.timer, clock)])]

HaltStop(w, clock, by) ==
    [w EXCEPT !.timer = stop(@, clock),
              !.halts = Append(@, [op |-> "stop", by |-> by,
                                   taskId |-> w.timer.state.taskId,
                                   wasRunning |-> w.timer.state.isRunning,
                                   ret |-> stopResult(w.timer, clock)])]

\* setError as the callback that captured `captured` runs it: retryCount
\* becomes the captured errorDetails.retryCount plus one
setErrorFrom(w, h, captured) ==
    [w EXCEPT !.hooks[h].hasError = TRUE,
              !.hooks[h].errorRetryCount = captured.retryCount + 1]

\* setError of the last render
setError(w, h) == setErrorFrom(w, h, Captured(w, h))

clearError(w, h) ==
    [w EXCEPT !.hooks[h].hasError = FALSE,
              !.hooks[h].errorRetryCount = 0,
              !.hooks[h].saveRetryCount = 0]

\* updateTime up to its await, as the callback that captured `captured`:
\* the throttle, setActualTime and the invoke
updateTimeFrom(w, h, clock, newTime, forceUpdate, captured) ==
    IF /\ ~forceUpdate
       /\ w.hooks[h].lastSaveAttempt # NULL
       /\ clock - w.hooks[h].lastSaveAttempt < UpdateThreshold
    THEN w
    ELSE Send([w EXCEPT !.hooks[h].actualTime = newTime], clock,
              "update-task-time", h, newTime, forceUpdate, captured)

\* updateTime of the last render
updateTime(w, h, clock, newTime, forceUpdate) ==
    updateTimeFrom(w, h, clock, newTime, forceUpdate, Captured(w, h))

startTimer(w, h, clock) ==
    LET currentTaskId == w.timer.state.taskId
        w1 == IF currentTaskId # NULL /\ currentTaskId # h
              THEN Send(HaltStop(w, clock, "startTimer"), clock,
                        "unregister-timer-activity", currentTaskId, <<>>, FALSE,
                        Captured(w, h))
              ELSE w
        initialSeconds == parseTime(w.hooks[h].actualTime)
        w2 == [w1 EXCEPT !.timer = start(@, clock, h, initialSeconds),
                         !.hooks[h].isRunning = TRUE,
                         !.hooks[h].isIdle = FALSE]
        w3 == clearError(w2, h)
        w4 == [w3 EXCEPT !.detector = idleStart(@, clock)]
    IN Send(w4, clock, "register-timer-activity", h, <<>>, FALSE, Captured(w, h))

stopTimer(w, h, clock) ==
    LET w1 == IF w.timer.state.taskId = h
              THEN LET halted == HaltStop(w, clock, "stopTimer")
                       finalTime == formatTime(stopResult(w.timer, clock))
                   IN Send(updateTime(halted, h, clock, finalTime, TRUE), clock,
                           "unregister-timer-activity", h, <<>>, FALSE,
                           Captured(w, h))
              ELSE w
    IN [w1 EXCEPT !.hooks[h].isRunning = FALSE,
                  !.hooks[h].isIdle = FALSE,
                  !.detector = idleStop(@)]

\* The subscriber of lines 344-377
timerListener(w, h, clock, event) ==
    IF w.timer.state.taskId # h THEN w
    ELSE LET newTimeString == formatTime(event.totalTime)
             shows == \/ w.hooks[h].lastTimerUpdate = NULL
                      \/ clock - w.hooks[h].lastTimerUpdate >= TimerUpdateGap
             w1 == IF shows
                   THEN [w EXCEPT !.hooks[h].actualTime = newTimeString,
                                  !.hooks[h].lastTimerUpdate = clock]
                   ELSE w
         IN IF event.totalTime > 0 /\ event.totalTime % SavePeriod = 0
            THEN updateTime(w1, h, clock, newTimeString, FALSE)
            ELSE w1

\* The subscriber of lines 379-427 with the pause floor used for resuming too
idleListener_oneFloor(w, h, clock, isCurrentlyIdle, confidence) ==
    LET w1 == [w EXCEPT !.hooks[h].isIdle = isCurrentlyIdle]
    IN IF w1.timer.state.taskId # h THEN w1
       ELSE IF isCurrentlyIdle /\ w1.timer.state.isRunning
       THEN IF confidence >= PauseFloor THEN HaltPause(w1, clock, "idle") ELSE w1
       ELSE IF ~isCurrentlyIdle /\ ~w1.timer.state.isRunning /\ w1.hooks[h].isRunning
       THEN IF confidence >= PauseFloor
            THEN [w1 EXCEPT !.timer = resume(@, clock)] ELSE w1
       ELSE w1

\* The subscriber of lines 379-427
idleListener(w, h, clock, isCurrentlyIdle, confidence) ==
    LET w1 == [w EXCEPT !.hooks[h].isIdle = isCurrentlyIdle]
    IN IF w1.timer.state.taskId # h THEN w1
       ELSE IF isCurrentlyIdle /\ w1.timer.state.isRunning
       THEN IF confidence >= PauseFloor THEN HaltPause(w1, clock, "idle") ELSE w1
       ELSE IF ~isCurrentlyIdle /\ ~w1.timer.state.isRunning /\ w1.hooks[h].isRunning
       THEN IF confidence >= ResumeFloor
            THEN [w1 EXCEPT !.timer = resume(@, clock)] ELSE w1
       ELSE w1

handleSystemSuspend(w, h, clock) ==
    IF w.timer.state.taskId = h
    THEN LET halted == HaltPause(w, clock, "system-suspend")
             finalTime == formatTime(pauseResult(w.timer, clock))
             w1 == updateTime(halted, h, clock, finalTime, TRUE)
         IN setError([w1 EXCEPT !.hooks[h].isRunning = FALSE], h)
    ELSE w

\* A hook whose effect cleanup does nothing
stopOnCleanup_skipped(w, h, clock) == w

\* The effect cleanup of lines 561-570
stopOnCleanup(w, h, clock) ==
    IF w.timer.state.taskId = h
    THEN updateTime(HaltStop(w, clock, "cleanup"), h, clock,
                    formatTime(stopResult(w.timer, clock)), TRUE)
    ELSE w

\* The hooks whose updateTime is a new function at the next render: it
\* depends on hasError and on setError, which depends on
\* errorDetails.retryCount
StaleHooks(w) ==
    {h \in DOMAIN w.hooks :
        \/ w.hooks[h].hasError # w.rendered[h].hasError
        \/ w.hooks[h].errorRetryCount # w.rendered[h].errorRetryCount}

\* The render after a handler: the effect of lines 561-570 depends on
\* updateTime, so for every hook whose updateTime is a new function the
\* cleanup made at the last render runs.
RECURSIVE runCleanups(_, _, _)
runCleanups(w, clock, pending) ==
    IF pending = {} THEN w
    ELSE LET h == CHOOSE x \in pending : \A y \in pending : x < y \/ x = y
         IN runCleanups(IF w.hooks[h].mounted THEN stopOnCleanup(w, h, clock) ELSE w,
                        clock, pending \ {h})

render(w, clock) ==
    LET r == runCleanups(w, clock, StaleHooks(w))
    IN [r EXCEPT !.rendered = r.hooks]

\* 2^n for the backoff of line 195
RECURSIVE Pow2(_)
Pow2(n) == IF n <= 0 THEN 1 ELSE 2 * Pow2(n - 1)

\* useState setters do nothing once the hook is unmounted
IfMounted(w, h, after) == IF w.hooks[h].mounted THEN after ELSE w

\* updateTime after its await (lines 182-211) for the request `request`;
\* failed says that the invoke rejected
updateTimeSettled(w, clock, request, failed) ==
    LET h == request.taskId
    IN IF ~failed
       THEN LET w1 == [w EXCEPT !.hooks[h].lastSaveAttempt = request.sentAt,
                                !.hooks[h].saveRetryCount = 0]
            IN IF request.captured.hasError THEN IfMounted(w1, h, clearError(w1, h))
               ELSE w1
       ELSE LET count == w.hooks[h].saveRetryCount + 1
                w1 == [w EXCEPT !.hooks[h].saveRetryCount = count]
                w2 == IF count <= MaxRetries
                      THEN [w1 EXCEPT !.ipc = Append(@,
                               [request EXCEPT !.kind = "retry",
                                               !.attempt = @ + 1,
                                               !.rejected = FALSE,
                                               !.sentAt = clock,
                                               !.dueAt = clock + RetryDelay * Pow2(count - 1)])]
                      ELSE w1
            IN IfMounted(w2, h, setErrorFrom(w2, h, request.captured))

\* The .catch of line 248
registerSettled(w, request, failed) ==
    IF failed
    THEN IfMounted(w, request.taskId, setErrorFrom(w, request.taskId, request.captured))
    ELSE w

\* The answer to `request` reaches the renderer
invokeSettled(w, clock, request, failed) ==
    CASE request.channel = "update-task-time" -> updateTimeSettled(w, clock, request, failed)
      [] request.channel = "register-timer-activity" -> registerSettled(w, request, failed)
      [] OTHER -> w

\* The setTimeout callback of lines 196-198
retryFired(w, clock, request) ==
    LET w1 == updateTimeFrom(w, request.taskId, clock, request.payload, TRUE,
                             request.captured)
    IN [w1 EXCEPT !.ipc[Len(w1.ipc)].attempt = request.attempt]

\* s without its i-th element
RemoveAt(s, i) == SubSeq(s, 1, i - 1) \o SubSeq(s, i + 1, Len(s))

\* handleSystemResume of lines 467-483
handleSystemResume(w, h, payload) ==
    IF payload.defined /\ payload.field = "resumeOptions" /\ h \in payload.tasks
    THEN setError(w, h)
    ELSE w

\* handleTimerPauseSuggestion of lines 495-504
handleTimerPauseSuggestion(w, h, payload) ==
    IF payload.defined /\ payload.field = "taskId" /\ h \in payload.tasks
    THEN setError(w, h)
    ELSE w

\* A message of the main process reaching the handler hook h registered
\* for its channel
windowHandler(w, h, clock, message) ==
    CASE message.channel = "system-suspend" -> handleSystemSuspend(w, h, clock)
      [] message.channel = "system-resume" -> handleSystemResume(w, h, message.payload)
      [] message.channel = "timer-pause-suggestion" ->
             handleTimerPauseSuggestion(w, h, message.payload)
      [] OTHER -> w

\* First(pending): the hook that subscribed first
First(pending) == CHOOSE x \in pending : \A y \in pending : x <= y

\* timerListeners.forEach over the hooks' subscribers
RECURSIVE notifyTimerListeners(_, _, _, _)
notifyTimerListeners(w, clock, event, pending) ==
    IF pending = {} THEN w
    ELSE LET h == First(pending)
         IN notifyTimerListeners(
                IF w.hooks[h].mounted THEN timerListener(w, h, clock, event) ELSE w,
                clock, event, pending \ {h})

\* callbacks.forEach over the hooks' subscribers
RECURSIVE notifyIdleListeners(_, _, _, _, _)
notifyIdleListeners(w, clock, isCurrentlyIdle, confidence, pending) ==
    IF pending = {} THEN w
    ELSE LET h == First(pending)
         IN notifyIdleListeners(
                IF w.hooks[h].mounted
                THEN idleListener(w, h, clock, isCurrentlyIdle, confidence) ELSE w,
                clock, isCurrentlyIdle, confidence, pending \ {h})

\* A message of the main process reaching every hook's handler
RECURSIVE deliverMessage(_, _, _, _)
deliverMessage(w, clock, message, pending) ==
    IF pending = {} THEN w
    ELSE LET h == First(pending)
         IN deliverMessage(
                IF w.hooks[h].mounted THEN windowHandler(w, h, clock, message) ELSE w,
                clock, message, pending \ {h})

\* The messages of the main process reaching the window one after the
\* other, each followed by the render it causes
RECURSIVE deliverToWindow(_, _, _)
deliverToWindow(w, clock, messages) ==
    IF messages = <<>> THEN w
    ELSE deliverToWindow(
             render(deliverMessage([w EXCEPT !.received = Append(@, Head(messages))],
                                   clock, Head(messages), DOMAIN w.hooks),
                    clock),
             clock, Tail(messages))

(***************************************************************************)
(* The timer on its own: a caller, the clock and the window's timers.      *)
(* lastCall is the most recent operation on the timer and what it gave     *)
(* back: op, the value returned, whether the call met a rejecting guard,   *)
(* whether the object (state, counters, armed timers) differs after it,    *)
(* and for a timer callback what updateTimer did.                          *)
(***************************************************************************)
Call(op, ret, rejected, before, after) ==
    [op |-> op, ret |-> ret, rejected |-> rejected, changed |-> after # before,
     pre |-> before.state,
     processed |-> FALSE, failed |-> FALSE, delivered |-> <<>>]

\* run is the running period as the caller knows it from the calls made:
\* "idle" before the first start and after a stop, "fresh" from an accepted
\* start until the next pause or stop, "paused" after an accepted pause,
\* "resumed" from an accepted resume until the next pause or stop.
\* idleCall: op, the clock at the call, what the detector showed before it (pre), whether the
\* object differs after it, and for a settled poll the query's outcome, the
\* fused confidence and the subscriber calls made.
IdleView(d) == [isIdle |-> d.isIdle, lastActivity |-> d.lastActivity]

NoHookCall ==
    [op |-> "new", hook |-> NULL, n |-> 0, sent |-> <<>>, halts |-> <<>>,
     notices |-> <<>>, received |-> <<>>]

NoIdleCall ==
    [op |-> "new", at |-> 0, pre |-> IdleView(IdleDetectorInit), changed |-> FALSE,
     failed |-> FALSE, idleTime |-> NULL, confidence |-> NULL, notified |-> <<>>]

NoRun ==
    [kind |-> "idle", taskId |-> NULL, startClock |-> 0, initial |-> 0,
     pauseReturned |-> NULL]

InitTimer ==
    /\ now = 0
    /\ globalTimer = PrecisionTimerInit
    /\ lastCall = Call("new", NULL, FALSE, PrecisionTimerInit, PrecisionTimerInit)
    /\ run = NoRun
    /\ idleDetector = IdleDetectorInit
    /\ idleCall = NoIdleCall
    /\ hooks = [h \in TaskIds |-> HookInit(0)]
    /\ hookCall = NoHookCall
    /\ main = MainInit
    /\ ipc = <<>>
    /\ codec = NoCodec

Advance ==
    /\ \E d \in Deltas : now + d <= MaxNow /\ now' = now + d
    /\ UNCHANGED <<timerVars, idleVars, hookVars, mainVars, codecVars>>

Start(taskId, initialTime) ==
    LET after == start(globalTimer, now, taskId, initialTime)
    IN /\ globalTimer' = after
       /\ lastCall' = Call("start", NULL, globalTimer.state.isRunning, globalTimer, after)
       /\ run' = IF globalTimer.state.isRunning THEN run
                 ELSE [kind |-> "fresh", taskId |-> taskId, startClock |-> now,
                       initial |-> initialTime, pauseReturned |-> NULL]
       /\ UNCHANGED <<now, idleVars, hookVars, mainVars, codecVars>>

Pause ==
    LET after == pause(globalTimer, now)
        ret == pauseResult(globalTimer, now)
    IN /\ globalTimer' = after
       /\ lastCall' = Call("pause", ret, ~globalTimer.state.isRunning, globalTimer, after)
       /\ run' = IF globalTimer.state.isRunning
                 THEN [run EXCEPT !.kind = "paused", !.pauseReturned = ret]
                 ELSE run
       /\ UNCHANGED <<now, idleVars, hookVars, mainVars, codecVars>>

Resume ==
    LET after == resume(globalTimer, now)
        rejected == globalTimer.state.isRunning \/ globalTimer.state.taskId = NULL
    IN /\ globalTimer' = after
       /\ lastCall' = Call("resume", NULL, rejected, globalTimer, after)
       /\ run' = IF rejected THEN run ELSE [run EXCEPT !.kind = "resumed"]
       /\ UNCHANGED <<now, idleVars, hookVars, mainVars, codecVars>>

Stop ==
    LET after == stop(globalTimer, now)
    IN /\ globalTimer' = after
       /\ lastCall' = Call("stop", stopResult(globalTimer, now), FALSE, globalTimer, after)
       /\ run' = NoRun
       /\ UNCHANGED <<now, idleVars, hookVars, mainVars, codecVars>>

\* The window runs a pending timer whose delay has passed: a timeout is
\* consumed, an interval stays armed for its next period.
Due(h) == (now - h.armedAt) * Micro >= h.delay

fired(timers, h) ==
    IF h.kind = "timeout" THEN timers \ {h}
    ELSE (timers \ {h}) \cup {[h EXCEPT !.armedAt = now]}

\* A listener that called pause() or stop() ended the running period
RunAfterTick(result) ==
    IF result.timer.state.taskId = NULL THEN NoRun
    ELSE IF ~result.timer.state.isRunning /\ globalTimer.state.isRunning
    THEN [run EXCEPT !.kind = "paused",
                     !.pauseReturned = RoundSeconds(result.timer.state.pausedTime)]
    ELSE run

TimerCallback(h, fails, reactions) ==
    /\ Due(h)
    /\ LET before == [globalTimer EXCEPT !.hostTimers = fired(@, h)]
           result == updateTimer(before, now, fails, reactions)
       IN /\ globalTimer' = result.timer
          /\ lastCall' = [op |-> "tick", ret |-> NULL,
                          rejected |-> ~result.processed,
                          changed |-> result.timer # before,
                          pre |-> before.state,
                          processed |-> result.processed, failed |-> result.failed,
                          delivered |-> result.delivered]
          /\ run' = RunAfterTick(result)
    /\ UNCHANGED <<now, idleVars, hookVars, mainVars, codecVars>>

ReactionSeqs == [1..NumListeners -> Reactions]

NextTimer ==
    \/ Advance
    \/ \E id \in TaskIds, i \in InitialTimes : Start(id, i)
    \/ Pause
    \/ Resume
    \/ Stop
    \/ \E h \in globalTimer.hostTimers, f \in BOOLEAN, r \in ReactionSeqs :
          TimerCallback(h, f, r)

SpecTimer == InitTimer /\ [][NextTimer]_vars


(***************************************************************************)
(* Properties of the timer, checked under SpecTimer                        *)
(***************************************************************************)

\* C1: after start(taskId, I) with no pause or stop since, getTotalSeconds()
\* read when E whole seconds have passed since the start returns I + E,
\* however many ticks fired in between.
C1_TotalIsInitialPlusElapsed ==
    (/\ run.kind = "fresh"
     /\ globalTimer.state.isRunning
     /\ (now - run.startClock) % 1000 = 0)
    => getTotalSeconds(globalTimer, now) = run.initial + (now - run.startClock) \div 1000

\* C2: the totalTime of a tick notification is what getTotalSeconds() returns
\* at the instant the running timer delivers it, and so is at least the
\* initial seconds given to start.
C2_TickCarriesTotalSeconds ==
    lastCall.op = "tick" =>
        \A i \in 1..Len(lastCall.delivered) :
            LET e == lastCall.delivered[i]
            IN e.timerRunning =>
                  /\ e.event.totalTime = e.totalSeconds
                  /\ (run.kind = "fresh" => e.event.totalTime >= run.initial)

\* C3: after pause() then resume(), getTotalSeconds() is, for the rest of
\* that running period, at least the value pause() returned.
C3_ResumeKeepsAccumulated ==
    run.kind = "resumed" => getTotalSeconds(globalTimer, now) >= run.pauseReturned

\* C4: running implies a start instant and a task id; the task id is null
\* exactly when the timer was never started or was last stopped; pause()
\* keeps the task id (it stays the one given to start all through the
\* period) and stop() leaves accumulated time 0.
C4_TimerStateInvariant ==
    /\ globalTimer.state.isRunning =>
          globalTimer.state.startTime # NULL /\ globalTimer.state.taskId # NULL
    /\ (globalTimer.state.taskId = NULL) <=> (run.kind = "idle")
    /\ globalTimer.state.taskId = run.taskId
    /\ lastCall.op = "pause" => globalTimer.state.taskId = lastCall.pre.taskId
    /\ lastCall.op = "stop" => globalTimer.state.pausedTime = 0

C4_Witness ==
    /\ lastCall.op = "pause"
    /\ ~lastCall.rejected
    /\ globalTimer.state.taskId \in TaskIds
    /\ ~globalTimer.state.isRunning

\* C5: start() while running, resume() while running and resume() with no
\* task id leave the whole object as it was: state, counters and the armed
\* tick callback.
C5_RejectedCallIsNoOp ==
    (lastCall.op \in {"start", "resume"} /\ lastCall.rejected) =>
        /\ ~lastCall.changed
        /\ globalTimer.state = lastCall.pre

C5_Witness ==
    /\ lastCall.op = "start"
    /\ lastCall.rejected
    /\ globalTimer.state.isRunning
    /\ globalTimer.hostTimers # {}

\* C6: pause() returns round(accumulated / 1000) for the accumulated time
\* the object held when it was called, without the wall-clock time since;
\* it never changes the accumulated time, on a timer that is not running it
\* changes nothing, and a second pause() returns what the first returned.
C6_PauseReturnsAccumulated ==
    lastCall.op = "pause" =>
        /\ lastCall.ret = RoundSeconds(lastCall.pre.pausedTime)
        /\ globalTimer.state.pausedTime = lastCall.pre.pausedTime
        /\ lastCall.rejected => ~lastCall.changed
        /\ (lastCall.rejected /\ run.kind = "paused") => lastCall.ret = run.pauseReturned

C6_Witness ==
    /\ lastCall.op = "pause"
    /\ ~lastCall.rejected
    /\ now - globalTimer.state.startTime >= 1000

\* C7: once pause() or stop() has returned, no tick is processed and no
\* subscriber is notified until the next start() or resume(), also when the
\* call was made by a subscriber during a tick.
C7_NoNotificationAfterHalt ==
    lastCall.op = "tick" =>
        /\ lastCall.processed => lastCall.pre.isRunning
        /\ \A i \in 1..Len(lastCall.delivered) : lastCall.delivered[i].timerRunning


(***************************************************************************)
(* The detector on its own: its caller, the clock, the window's interval,  *)
(* the host's answers to the idle-duration query and user input in the     *)
(* document.                                                               *)
(***************************************************************************)
InitIdle ==
    /\ now = 0
    /\ globalTimer = PrecisionTimerInit
    /\ lastCall = Call("new", NULL, FALSE, PrecisionTimerInit, PrecisionTimerInit)
    /\ run = NoRun
    /\ idleDetector = IdleDetectorInit
    /\ idleCall = NoIdleCall
    /\ hooks = [h \in TaskIds |-> HookInit(0)]
    /\ hookCall = NoHookCall
    /\ main = MainInit
    /\ ipc = <<>>
    /\ codec = NoCodec

IdleCall(op, before, after, failed, idleTime, confidence, notified) ==
    [op |-> op, at |-> now, pre |-> IdleView(before), changed |-> after # before,
     failed |-> failed, idleTime |-> idleTime, confidence |-> confidence,
     notified |-> notified]

AdvanceIdle ==
    /\ \E d \in IdleDeltas : now + d <= MaxIdleNow /\ now' = now + d
    /\ UNCHANGED <<timerVars, idleVars, hookVars, mainVars, codecVars>>

IdleStart ==
    /\ idleDetector.activityHandlers < MaxActivityHandlers
    /\ LET after == idleStart(idleDetector, now)
       IN /\ idleDetector' = after
          /\ idleCall' = IdleCall("start", idleDetector, after, FALSE, NULL, NULL, <<>>)
    /\ UNCHANGED <<now, timerVars, hookVars, mainVars, codecVars>>

IdleStop ==
    /\ LET after == idleStop(idleDetector)
       IN /\ idleDetector' = after
          /\ idleCall' = IdleCall("stop", idleDetector, after, FALSE, NULL, NULL, <<>>)
    /\ UNCHANGED <<now, timerVars, hookVars, mainVars, codecVars>>

\* The interval callback runs performIdleCheck up to its await: the query
\* is sent and the callback returns.
PollFireWithin(limit, h) ==
    /\ Due(h)
    /\ idleDetector.inFlight < limit
    /\ idleDetector' = [idleDetector EXCEPT !.hostTimers = fired(@, h),
                                            !.inFlight = @ + 1]
    /\ idleCall' = IdleCall("query", idleDetector, idleDetector, FALSE, NULL, NULL, <<>>)
    /\ UNCHANGED <<now, timerVars, hookVars, mainVars, codecVars>>

PollFire(h) == PollFireWithin(MaxInFlight, h)

\* The query settles and performIdleCheck runs to its end
PollSettleWithin(limit, failed, systemIdleTime) ==
    /\ idleDetector.inFlight > 0
    /\ Len(idleDetector.activityHistory) < limit
    /\ LET before == [idleDetector EXCEPT !.inFlight = @ - 1]
           result == performIdleCheck(before, now, failed, systemIdleTime)
       IN /\ idleDetector' = result.detector
          /\ idleCall' = IdleCall("poll", before, result.detector, failed,
                                  IF failed THEN NULL ELSE systemIdleTime,
                                  result.confidence, result.notified)
    /\ UNCHANGED <<now, timerVars, hookVars, mainVars, codecVars>>

PollSettle(failed, systemIdleTime) == PollSettleWithin(MaxHistory, failed, systemIdleTime)

ResetActivity ==
    /\ Len(idleDetector.activityHistory) < MaxHistory
    /\ LET result == resetActivity(idleDetector, now)
       IN /\ idleDetector' = result.detector
          /\ idleCall' = IdleCall("resetActivity", idleDetector, result.detector,
                                  FALSE, NULL, NULL, result.notified)
    /\ UNCHANGED <<now, timerVars, hookVars, mainVars, codecVars>>

\* A mousedown, keydown or scroll in the document: every handler attached
\* for it runs onUserActivity, one after the other.
RECURSIVE dispatchUserActivity(_, _, _, _)
dispatchUserActivity(d, clock, handlers, notified) ==
    IF handlers = 0 THEN [detector |-> d, notified |-> notified]
    ELSE LET r == onUserActivity(d, clock)
         IN dispatchUserActivity(r.detector, clock, handlers - 1, notified \o r.notified)

UserInput ==
    /\ idleDetector.activityHandlers > 0
    /\ Len(idleDetector.activityHistory) < MaxHistory
    /\ LET result == dispatchUserActivity(idleDetector, now,
                                          idleDetector.activityHandlers, <<>>)
       IN /\ idleDetector' = result.detector
          /\ idleCall' = IdleCall("userActivity", idleDetector, result.detector,
                                  FALSE, NULL, NULL, result.notified)
    /\ UNCHANGED <<now, timerVars, hookVars, mainVars, codecVars>>

NextIdle ==
    \/ AdvanceIdle
    \/ IdleStart
    \/ IdleStop
    \/ \E h \in idleDetector.hostTimers : PollFire(h)
    \/ \E f \in BOOLEAN, i \in IdleTimes : PollSettle(f, i)
    \/ ResetActivity
    \/ UserInput

SpecIdle == InitIdle /\ [][NextIdle]_vars


(***************************************************************************)
(* Properties of the detector, checked under SpecIdle                      *)
(***************************************************************************)
AllNotifiedActive ==
    /\ Len(idleCall.notified) = NumIdleCallbacks
    /\ \A i \in 1..NumIdleCallbacks :
          /\ idleCall.notified[i].callback = i
          /\ ~idleCall.notified[i].isIdle
          /\ idleCall.notified[i].confidence = Fused(VERY_HIGH)

\* C9: after resetActivity(), or a user-input event at least 1 s after the
\* last recorded activity, on an idle detector, getIdleStatus().isIdle is
\* false and every subscriber was told "active" with confidence 1.0; a
\* user-input event within 1 s of the last recorded activity changes nothing.
C9_UserActivityForcesActive ==
    /\ (idleCall.op = "resetActivity" /\ idleCall.pre.isIdle) =>
          ~getIdleStatus(idleDetector, now).isIdle /\ AllNotifiedActive
    /\ (/\ idleCall.op = "userActivity"
        /\ idleCall.pre.isIdle
        /\ idleCall.at - idleCall.pre.lastActivity >= ActivityDebounce) =>
          ~getIdleStatus(idleDetector, now).isIdle /\ AllNotifiedActive
    /\ (/\ idleCall.op = "userActivity"
        /\ idleCall.at - idleCall.pre.lastActivity < ActivityDebounce) =>
          ~idleCall.changed /\ idleCall.notified = <<>>

\* C10: a poll whose fused confidence is below the configured minimum does
\* not change the public idle flag and notifies no subscriber, whatever
\* idle duration it reported.
C10_LowConfidencePollChangesNothing ==
    (idleCall.op = "poll" /\ ~idleCall.failed /\ idleCall.confidence < Fused(MEDIUM)) =>
        /\ idleDetector.isIdle = idleCall.pre.isIdle
        /\ getIdleStatus(idleDetector, now).isIdle = idleCall.pre.isIdle
        /\ idleCall.notified = <<>>

C10_Witness ==
    /\ idleCall.op = "poll"
    /\ ~idleCall.failed
    /\ idleCall.confidence < Fused(MEDIUM)
    /\ idleCall.idleTime >= IdleThreshold
    /\ ~idleCall.pre.isIdle

(***************************************************************************)
(* The renderer: the hooks of the tasks shown, with globalTimer and the    *)
(* idleDetector they share.  The subscribers of the timer and of the       *)
(* detector are the hooks' listeners.  Each action is one handler run by   *)
(* the window followed by the render it causes.                            *)
(***************************************************************************)
InitHook ==
    /\ now = 0
    /\ globalTimer = PrecisionTimerInit
    /\ lastCall = Call("new", NULL, FALSE, PrecisionTimerInit, PrecisionTimerInit)
    /\ run = NoRun
    /\ idleDetector = IdleDetectorInit
    /\ idleCall = NoIdleCall
    /\ hooks = [h \in TaskIds |-> HookInit(0)]
    /\ hookCall = NoHookCall
    /\ main = whenReady(MainInit)
    /\ ipc = <<>>
    /\ codec = NoCodec

Mounted == {h \in ShownTasks : hooks[h].mounted}

Renderer == World(globalTimer, idleDetector, hooks, main, ipc)

\* The handler op of hook h has taken the renderer to w; the render follows.
\* n counts the handlers run and the advances of the clock, at most limit.
CommitWithin(limit, op, h, w) ==
    LET r == render(w, now)
    IN /\ hookCall.n < limit
       /\ globalTimer' = r.timer
       /\ idleDetector' = r.detector
       /\ hooks' = r.hooks
       /\ main' = r.main
       /\ ipc' = r.ipc
       /\ hookCall' = [op |-> op, hook |-> h, n |-> hookCall.n + 1,
                       sent |-> r.sent, halts |-> r.halts, notices |-> r.notices,
                       received |-> r.received]
       /\ UNCHANGED <<now, lastCall, run, idleCall, codec>>

Commit(op, h, w) == CommitWithin(MaxSteps, op, h, w)

AdvanceHook ==
    /\ hookCall.n < MaxSteps
    /\ \E d \in HookDeltas : now + d <= MaxHookNow /\ now' = now + d
    /\ hookCall' = [hookCall EXCEPT !.n = @ + 1]
    /\ UNCHANGED <<timerVars, idleVars, hooks, mainVars, codecVars>>

\* The start button of task h
StartTimer(h) ==
    /\ hooks[h].mounted
    /\ idleDetector.checkInterval # NULL
           \/ idleDetector.activityHandlers < MaxHookHandlers
    /\ Commit("startTimer", h, startTimer(Renderer, h, now))

\* The pause, edit or complete button of task h
StopTimer(h) ==
    /\ hooks[h].mounted
    /\ Commit("stopTimer", h, stopTimer(Renderer, h, now))

\* The detector's subscriber calls, round by round, reaching the hooks
\* One call of notifyCallbacks reaching the hooks' subscribers; notices keeps
\* what was notified
deliverNotice(w, clock, isCurrentlyIdle, confidence) ==
    notifyIdleListeners(
        [w EXCEPT !.notices = Append(@, [isIdle |-> isCurrentlyIdle,
                                         confidence |-> confidence])],
        clock, isCurrentlyIdle, confidence, ShownTasks)

RECURSIVE deliverIdle(_, _, _)
deliverIdle(w, clock, notified) ==
    IF notified = <<>> THEN w
    ELSE deliverIdle(
             deliverNotice(w, clock, notified[1].isIdle, notified[1].confidence),
             clock, SubSeq(notified, NumIdleCallbacks + 1, Len(notified)))

resetIdleState(w, h, clock) ==
    LET result == resetActivity(w.detector, clock)
        w1 == deliverIdle([w EXCEPT !.detector = result.detector], clock,
                          result.notified)
        w2 == [w1 EXCEPT !.hooks[h].isIdle = FALSE]
    IN IF w2.timer.state.taskId = h /\ ~w2.timer.state.isRunning
       THEN [w2 EXCEPT !.timer = resume(@, clock)]
       ELSE w2

\* The "I am back" button of task h
ResetIdleState(h) ==
    /\ hooks[h].mounted
    /\ Len(idleDetector.activityHistory) < MaxHookHistory
    /\ Commit("resetIdleState", h, resetIdleState(Renderer, h, now))

\* The armed callback of globalTimer runs; the hooks' listeners get the event
TimerTick(h) ==
    /\ Due(h)
    /\ LET before == [globalTimer EXCEPT !.hostTimers = fired(@, h)]
           result == updateTimer(before, now, FALSE, <<>>)
           w == [Renderer EXCEPT !.timer = result.timer]
       IN Commit("tick", NULL,
                 IF result.processed
                 THEN notifyTimerListeners(w, now, result.event, ShownTasks)
                 ELSE w)

\* The idle-duration query settles; the hooks' listeners get the change
IdlePoll(failed, systemIdleTime) ==
    /\ idleDetector.inFlight > 0
    /\ Len(idleDetector.activityHistory) < MaxHookHistory
    /\ LET before == [idleDetector EXCEPT !.inFlight = @ - 1]
           result == performIdleCheck(before, now, failed, systemIdleTime)
       IN Commit("poll", NULL,
                 deliverIdle([Renderer EXCEPT !.detector = result.detector], now,
                             result.notified))

\* A mousedown, keydown or scroll in the document
UserActivity ==
    /\ idleDetector.activityHandlers > 0
    /\ Len(idleDetector.activityHistory) < MaxHookHistory
    /\ LET result == dispatchUserActivity(idleDetector, now,
                                          idleDetector.activityHandlers, <<>>)
       IN Commit("userActivity", NULL,
                 deliverIdle([Renderer EXCEPT !.detector = result.detector], now,
                             result.notified))

\* The main process announces that the host is about to sleep
SystemSuspend ==
    LET r == powerSuspend(main, now)
    IN Commit("system-suspend", NULL,
              deliverToWindow([Renderer EXCEPT !.main = r.main], now, r.sent))

\* The main process announces that the host woke up
SystemResume ==
    LET r == powerResume(main, now)
    IN Commit("system-resume", NULL,
              deliverToWindow([Renderer EXCEPT !.main = r.main], now, r.sent))

\* The oldest invoke that is not answered yet
OldestInvoke == CHOOSE i \in DOMAIN ipc :
                    /\ ipc[i].kind = "invoke"
                    /\ \A j \in 1..(i - 1) : ipc[j].kind # "invoke"

\* The answer to the oldest invoke reaches the renderer; fails says that
\* the invoke rejects although its handler returned
InvokeReply(fails) ==
    /\ \E i \in DOMAIN ipc : ipc[i].kind = "invoke"
    /\ LET request == ipc[OldestInvoke]
       IN Commit("reply", request.taskId,
                 invokeSettled([Renderer EXCEPT !.ipc = RemoveAt(@, OldestInvoke)], now,
                               request, request.rejected \/ fails))

\* The timeout of a retry runs
RetryFire(i) ==
    /\ ipc[i].kind = "retry"
    /\ ipc[i].dueAt <= now
    /\ Commit("retry", ipc[i].taskId,
              retryFired([Renderer EXCEPT !.ipc = RemoveAt(@, i)], now, ipc[i]))

\* The item of task h leaves the list
Unmount(h) ==
    /\ hooks[h].mounted
    /\ LET w == stopOnCleanup(Renderer, h, now)
       IN Commit("unmount", h, [w EXCEPT !.hooks[h].mounted = FALSE])

NextHook ==
    \/ AdvanceHook
    \/ \E h \in ShownTasks : StartTimer(h)
    \/ \E h \in ShownTasks : StopTimer(h)
    \/ \E h \in ShownTasks : ResetIdleState(h)
    \/ \E h \in globalTimer.hostTimers : TimerTick(h)
    \/ \E h \in idleDetector.hostTimers : PollFire(h)
    \/ \E f \in BOOLEAN, i \in HookIdleTimes : IdlePoll(f, i)
    \/ UserActivity
    \/ SystemSuspend
    \/ SystemResume
    \/ \E f \in BOOLEAN : InvokeReply(f)
    \/ \E i \in DOMAIN ipc : RetryFire(i)
    \/ \E h \in ShownTasks : Unmount(h)

SpecHook == InitHook /\ [][NextHook]_vars

(***************************************************************************)
(* Properties of the renderer                                              *)
(***************************************************************************)
\* Call c of globalTimer.pause() / stop() halted a task that was being timed
HaltsTimedTask(c) == c.taskId # NULL /\ c.wasRunning

\* Message m is a forced persistence write of what call c returned
ForcedWriteFor(m, c) ==
    /\ m.channel = "update-task-time"
    /\ m.taskId = c.taskId
    /\ m.forced
    /\ m.payload = formatTime(c.ret)

\* C8: every pause or stop of the timer while it is timing a task (user
\* stop, idle auto-pause, host suspend, switching to another task, unmount)
\* issues a forced persistence write of that task's elapsed time: the
\* handler that halted the timer has sent a forced update-task-time message
\* carrying the value the halt returned.
C8_HaltIssuesForcedWrite ==
    \A i \in DOMAIN hookCall.halts :
        HaltsTimedTask(hookCall.halts[i]) =>
            \E j \in DOMAIN hookCall.sent :
                ForcedWriteFor(hookCall.sent[j], hookCall.halts[i])

(***************************************************************************)
(* The hooks with the detector's subscriber interface as the input: any    *)
(* notification the onIdleChange signature allows may arrive.              *)
(***************************************************************************)
NoticeConfidences == {0, 699, 700, 799, 800, 1000}

\* notifyCallbacks(isIdle, idleTime, confidence) called on the hooks; a
\* missing confidence reads as 0 (line 381)
Notice(isCurrentlyIdle, confidence) ==
    Commit("notice", NULL, deliverNotice(Renderer, now, isCurrentlyIdle, confidence))

NextNotice ==
    \/ AdvanceHook
    \/ \E h \in ShownTasks : StartTimer(h)
    \/ \E h \in ShownTasks : StopTimer(h)
    \/ \E h \in globalTimer.hostTimers : TimerTick(h)
    \/ \E i \in BOOLEAN, c \in NoticeConfidences : Notice(i, c)
    \/ SystemSuspend
    \/ \E f \in BOOLEAN : InvokeReply(f)
    \/ \E i \in DOMAIN ipc : RetryFire(i)
    \/ \E h \in ShownTasks : Unmount(h)

SpecNotice == InitHook /\ [][NextNotice]_vars

\* C11: for the task that owns the timer, an idle notification while the
\* timer runs pauses it exactly when the confidence is at least 0.7, an
\* active notification while the timer is paused resumes it exactly when the
\* confidence is at least 0.8, and a notification below the floor leaves the
\* timer as it was.
C11_NoticeDrivesTimerByFloor ==
    [][hookCall'.op = "notice" /\ globalTimer.state.taskId # NULL =>
          LET notice == hookCall'.notices[1]
          IN /\ (notice.isIdle /\ globalTimer.state.isRunning) =>
                    IF notice.confidence >= 700
                    THEN /\ ~globalTimer'.state.isRunning
                         /\ globalTimer' = pause(globalTimer, now)
                    ELSE globalTimer' = globalTimer
             /\ (~notice.isIdle /\ ~globalTimer.state.isRunning) =>
                    IF notice.confidence >= 800
                    THEN /\ globalTimer'.state.isRunning
                         /\ globalTimer' = resume(globalTimer, now)
                    ELSE globalTimer' = globalTimer
             /\ (notice.isIdle = globalTimer.state.isRunning) =>
                    globalTimer'.state.taskId = globalTimer.state.taskId]_vars

C11_Witness ==
    /\ hookCall.op = "notice"
    /\ ~hookCall.notices[1].isIdle
    /\ hookCall.notices[1].confidence >= 700
    /\ hookCall.notices[1].confidence < 800
    /\ globalTimer.state.taskId # NULL
    /\ ~globalTimer.state.isRunning
    /\ hooks[globalTimer.state.taskId].isRunning

(***************************************************************************)
(* The coordinator in use: its methods called as its callers and its       *)
(* intervals call them, the power signals, and the window's hooks that     *)
(* receive what it sends.  hookCall.hook is the task id passed.            *)
(***************************************************************************)
AdvanceMain ==
    /\ hookCall.n < MaxMainSteps
    /\ \E d \in MainDeltas : now + d <= MaxMainNow /\ now' = now + d
    /\ hookCall' = [hookCall EXCEPT !.n = @ + 1]
    /\ UNCHANGED <<timerVars, idleVars, hooks, mainVars, codecVars>>

RegisterTimerActivity(taskId) ==
    CommitWithin(MaxMainSteps, "registerTimerActivity", taskId,
                 [Renderer EXCEPT !.main = registerTimerActivity(@, now, taskId)])

UnregisterTimerActivity(taskId) ==
    CommitWithin(MaxMainSteps, "unregisterTimerActivity", taskId,
                 [Renderer EXCEPT !.main = unregisterTimerActivity(@, taskId)])

\* The 30-second interval of line 86
MonitorActiveTimers ==
    LET r == monitorActiveTimers(main, now, DOMAIN main.lastActivityTimes, <<>>)
    IN CommitWithin(MaxMainSteps, "monitorActiveTimers", NULL,
                    deliverToWindow([Renderer EXCEPT !.main = r.main], now, r.sent))

\* The 60-second interval of line 91; powerMonitor reports systemIdleTime
GenerateResumeSuggestions(systemIdleTime) ==
    CommitWithin(MaxMainSteps, "generateResumeSuggestions", NULL,
                 [Renderer EXCEPT !.main = generateResumeSuggestions(@, systemIdleTime)])

\* The 5-minute interval of line 81
PerformMaintenanceTasks ==
    CommitWithin(MaxMainSteps, "performMaintenanceTasks", NULL,
                 [Renderer EXCEPT !.main = performMaintenanceTasks(@, now)])

\* The detector reports idle with full confidence
IdleNotice == Notice(TRUE, 1000)

NextCoordinator ==
    \/ AdvanceMain
    \/ \E t \in TaskIds : RegisterTimerActivity(t)
    \/ \E t \in TaskIds : UnregisterTimerActivity(t)
    \/ MonitorActiveTimers
    \/ \E i \in MainIdleTimes : GenerateResumeSuggestions(i)
    \/ PerformMaintenanceTasks
    \/ SystemSuspend
    \/ SystemResume
    \/ \E h \in ShownTasks : StartTimer(h)
    \/ IdleNotice
    \/ \E f \in BOOLEAN : InvokeReply(f)

SpecCoordinator == InitHook /\ [][NextCoordinator]_vars

(***************************************************************************)
(* Properties of the coordinator and of the hooks it notifies              *)
(***************************************************************************)
\* The tasks registered with the coordinator
Registered(m) == DOMAIN m.lastActivityTimes

\* The window received a message on `channel` that lists exactly `tasks`
ReceivedListing(channel, tasks) ==
    \E i \in DOMAIN hookCall.received :
        /\ hookCall.received[i].channel = channel
        /\ hookCall.received[i].payload.defined
        /\ hookCall.received[i].payload.tasks = tasks

\* C12: on a host suspend signal every task registered with the coordinator
\* has one SuspendedTimerRecord with reason system suspend afterwards, a
\* timer that was timing a task is paused (not running, still holding that
\* task), and when tasks are affected the window has received a suspend
\* notification that lists them.
C12_SuspendPausesAndRecords ==
    [][hookCall'.op = "system-suspend" =>
          /\ \A t \in Registered(main) :
                 /\ t \in DOMAIN main'.suspendedTimers
                 /\ main'.suspendedTimers[t].reason = SystemSuspendReason
          /\ (globalTimer.state.taskId # NULL /\ globalTimer.state.isRunning) =>
                 /\ ~globalTimer'.state.isRunning
                 /\ globalTimer'.state.taskId = globalTimer.state.taskId
          /\ Registered(main) # {} =>
                 ReceivedListing("system-suspend", Registered(main))']_vars

\* The records of map `records` whose reason is not system suspend
OtherReasonRecords(records) ==
    [t \in {u \in DOMAIN records : records[u].reason # SystemSuspendReason} |->
        records[t]]

\* C13: on a host resume signal exactly the SuspendedTimerRecords with reason
\* system suspend are removed and every record with another reason stays as
\* it was, and the signal leaves the timer as it was: a paused timer stays
\* paused with its task id and accumulated time.
C13_ResumeRemovesSystemRecordsOnly ==
    [][hookCall'.op = "system-resume" =>
          /\ main'.suspendedTimers = OtherReasonRecords(main.suspendedTimers)
          /\ globalTimer' = globalTimer]_vars

\* A resume signal has removed the system-suspend record of a task while
\* the timer is paused holding a task
C13_Witness ==
    /\ hookCall.op = "system-resume"
    /\ \E i \in DOMAIN hookCall.received :
           /\ hookCall.received[i].payload.defined
           /\ hookCall.received[i].payload.field = "resumedTasks"
           /\ hookCall.received[i].payload.tasks # {}
           /\ hookCall.received[i].payload.tasks \cap DOMAIN main.suspendedTimers = {}
    /\ globalTimer.state.taskId # NULL
    /\ ~globalTimer.state.isRunning

\* Some map of the coordinator has an entry of task t: an entry under its id
\* or a pending suggestion made for its suspended record
RefersTo(m, t) ==
    \/ t \in DOMAIN m.activeTimers
    \/ t \in DOMAIN m.lastActivityTimes
    \/ t \in DOMAIN m.suspendedTimers
    \/ \E k \in DOMAIN m.pendingResumeSuggestions : k.id = t \/ k.owner = t

\* C14: after unregisterTimerActivity(taskId) no map of the coordinator has
\* an entry of the task (active entry, last-activity entry, suspended record,
\* pending resume suggestion), and unregistering the same id again changes
\* nothing.
C14_UnregisterClearsTask ==
    [][hookCall'.op = "unregisterTimerActivity" =>
          /\ ~RefersTo(main', hookCall'.hook)
          /\ unregisterTimerActivity(main', hookCall'.hook) = main']_vars

(***************************************************************************)
(* Properties of the requests the window sends to the coordinator          *)
(***************************************************************************)
\* The coordinator tracks task t: it is in the active and the last-activity
\* map, and getBackgroundStats counts it
Tracked(m, t) ==
    /\ t \in DOMAIN m.activeTimers
    /\ t \in DOMAIN m.lastActivityTimes
    /\ getBackgroundStats(m).activeTimers >= 1

\* C15: once the handler that sent a register-timer-activity request for a
\* task has run, the coordinator tracks the task; once the handler that sent
\* an unregister-timer-activity request has run, neither map holds the task;
\* and the coordinator's periodic tasks have been set up at most once (three
\* intervals) however many requests arrived.
C15_RequestsReachCoordinator ==
    /\ \A i \in DOMAIN hookCall.sent :
           /\ hookCall.sent[i].channel = "register-timer-activity" =>
                  Tracked(main, hookCall.sent[i].taskId)
           /\ hookCall.sent[i].channel = "unregister-timer-activity" =>
                  /\ hookCall.sent[i].taskId \notin DOMAIN main.activeTimers
                  /\ hookCall.sent[i].taskId \notin DOMAIN main.lastActivityTimes
    /\ main.periodicTasks <= PeriodicTaskCount

(***************************************************************************)
(* The hook of one task and its persistence writes: the buttons, the       *)
(* answers of the main process, which may fail, and the retry timeouts.    *)
(***************************************************************************)
AdvanceRetry ==
    /\ hookCall.n < MaxRetrySteps
    /\ \E d \in RetryDeltas : now + d <= MaxRetryNow /\ now' = now + d
    /\ hookCall' = [hookCall EXCEPT !.n = @ + 1]
    /\ UNCHANGED <<timerVars, idleVars, hooks, mainVars, codecVars>>

StartRetried ==
    /\ idleDetector.checkInterval # NULL
           \/ idleDetector.activityHandlers < MaxHookHandlers
    /\ CommitWithin(MaxRetrySteps, "startTimer", 1, startTimer(Renderer, 1, now))

StopRetried ==
    CommitWithin(MaxRetrySteps, "stopTimer", 1, stopTimer(Renderer, 1, now))

ReplyRetried(fails) ==
    /\ \E i \in DOMAIN ipc : ipc[i].kind = "invoke"
    /\ LET request == ipc[OldestInvoke]
       IN CommitWithin(MaxRetrySteps, "reply", request.taskId,
                       invokeSettled([Renderer EXCEPT !.ipc = RemoveAt(@, OldestInvoke)],
                                     now, request, request.rejected \/ fails))

RetryTimeout(i) ==
    /\ ipc[i].kind = "retry"
    /\ ipc[i].dueAt <= now
    /\ CommitWithin(MaxRetrySteps, "retry", ipc[i].taskId,
                    retryFired([Renderer EXCEPT !.ipc = RemoveAt(@, i)], now, ipc[i]))

NextRetry ==
    \/ AdvanceRetry
    \/ StartRetried
    \/ StopRetried
    \/ \E f \in BOOLEAN : ReplyRetried(f)
    \/ \E i \in DOMAIN ipc : RetryTimeout(i)

SpecRetry == InitHook /\ [][NextRetry]_vars

\* C16: a scheduled retry is the first, second or third retry of its write
\* and is due 1 s, 2 s or 4 s after the failure in that order, so a write
\* that keeps failing gets no fourth retry; and a hook that shows an error
\* keeps showing it until the start button clears it or a write succeeds.
C16_RetriesBoundedAndErrorSticky ==
    /\ [](\A i \in DOMAIN ipc :
             ipc[i].kind = "retry" =>
                 /\ ipc[i].attempt <= MaxRetries
                 /\ ipc[i].dueAt - ipc[i].sentAt = RetryDelay * Pow2(ipc[i].attempt - 1))
    /\ [][\A h \in ShownTasks :
             hooks[h].hasError /\ ~hooks'[h].hasError =>
                 \/ hookCall'.op = "startTimer"
                 \/ /\ hookCall'.op \in {"reply"}
                    /\ hooks'[h].lastSaveAttempt # NULL
                    /\ hooks'[h].saveRetryCount = 0]_vars

(***************************************************************************)
(* The timer and the detector with subscribers that may throw.  The two    *)
(* objects share no state: a behaviour exercises one of them from the      *)
(* start.  The timer's subscribers react in any way; the detector's first  *)
(* subscriber throws when called and the others return.                    *)
(***************************************************************************)
FirstThrows == [i \in 1..NumIdleCallbacks |-> IF i = 1 THEN "throw" ELSE "none"]

InitDelivery ==
    /\ now = 0
    /\ globalTimer = PrecisionTimerInit
    /\ lastCall = Call("new", NULL, FALSE, PrecisionTimerInit, PrecisionTimerInit)
    /\ run = NoRun
    /\ idleDetector = [IdleDetectorInit EXCEPT !.callbacks = FirstThrows]
    /\ idleCall = NoIdleCall
    /\ hooks = [h \in TaskIds |-> HookInit(0)]
    /\ hookCall = NoHookCall
    /\ main = MainInit
    /\ ipc = <<>>
    /\ codec = NoCodec

NextDelivery ==
    \/ /\ idleCall.op = "new"
       /\ lastCall.op # "new" \/ now = 0
       /\ NextTimer
    \/ /\ lastCall.op = "new"
       /\ idleCall.op # "new" \/ now = 0
       /\ NextIdle

SpecDelivery == InitDelivery /\ [][NextDelivery]_vars

\* Every subscriber of the timer was called, in order, with the same event
AllListenersGot(delivered) ==
    /\ Len(delivered) = NumListeners
    /\ \A i \in DOMAIN delivered :
           delivered[i].listener = i /\ delivered[i].event = delivered[1].event

\* Every subscriber of the detector was called in each round of calls, in
\* order, with what the first of the round was called with
AllCallbacksGot(notified) ==
    /\ Len(notified) % NumIdleCallbacks = 0
    /\ \A k \in DOMAIN notified :
           LET first == notified[k - ((k - 1) % NumIdleCallbacks)]
           IN /\ notified[k].callback = ((k - 1) % NumIdleCallbacks) + 1
              /\ notified[k].isIdle = first.isIdle
              /\ notified[k].idleTime = first.idleTime
              /\ notified[k].confidence = first.confidence

\* The timer holds an armed timeout for its next tick
NextTickArmed(t) ==
    \E h \in t.hostTimers : h.id = t.intervalId /\ h.kind = "timeout"

\* The detector holds its armed poll interval
NextPollArmed(d) ==
    \E h \in d.hostTimers : h.id = d.checkInterval

\* C17: when a subscriber throws during tick delivery or idle-change
\* delivery, every subscriber is still called with the same notification,
\* the tick or poll does not count as failed (the failure counter is not
\* raised), and the next tick or poll stays armed.
C17_ThrowingSubscriberIsIsolated ==
    [][/\ (/\ lastCall'.op = "tick"
           /\ \E i \in DOMAIN lastCall'.delivered : lastCall'.delivered[i].threw) =>
              /\ AllListenersGot(lastCall'.delivered)
              /\ ~lastCall'.failed
              /\ globalTimer'.state.isRunning =>
                     /\ globalTimer'.consecutiveErrors = globalTimer.consecutiveErrors
                     /\ NextTickArmed(globalTimer')
       /\ (\E k \in DOMAIN idleCall'.notified : idleCall'.notified[k].threw) =>
              /\ AllCallbacksGot(idleCall'.notified)
              /\ ~idleCall'.failed
              /\ idleDetector'.consecutiveErrors <= idleDetector.consecutiveErrors
              /\ idleDetector'.checkInterval # NULL => NextPollArmed(idleDetector')]_vars

\* A poll made the detector idle and its first subscriber threw; the second
\* was called all the same
C17_Witness ==
    /\ idleCall.op = "poll"
    /\ Len(idleCall.notified) = NumIdleCallbacks
    /\ idleCall.notified[1].threw
    /\ idleCall.notified[1].isIdle
    /\ idleCall.notified[NumIdleCallbacks].callback = NumIdleCallbacks

(***************************************************************************)
(* The timer with a caller that also sets the update interval.             *)
(***************************************************************************)
Intervals == {99, 500, 5001}

SetUpdateInterval(interval) ==
    LET after == setUpdateInterval(globalTimer, now, interval)
    IN /\ globalTimer' = after
       /\ lastCall' = Call("setUpdateInterval", NULL,
                           interval < SetIntervalMin \/ interval > SetIntervalMax,
                           globalTimer, after)
       /\ UNCHANGED <<now, run, idleVars, hookVars, mainVars, codecVars>>

\* A tick whose subscribers return
QuietTick(h) == TimerCallback(h, FALSE, [i \in 1..NumListeners |-> "none"])

NextInterval ==
    \/ Advance
    \/ Start(1, 0)
    \/ Pause
    \/ Resume
    \/ Stop
    \/ \E h \in globalTimer.hostTimers : QuietTick(h)
    \/ \E ms \in Intervals : SetUpdateInterval(ms)

SpecInterval == InitTimer /\ [][NextInterval]_vars

\* C18: a setUpdateInterval(ms) with ms below 100 or above 5000 is ignored:
\* the configured interval, the armed tick callbacks and the TimerState are
\* what they were, and so is the rest of the timer object.
C18_OutOfRangeIntervalIgnored ==
    [][\A ms \in Intervals :
          ((ms < 100 \/ ms > 5000) /\ SetUpdateInterval(ms)) =>
              /\ globalTimer'.updateInterval = globalTimer.updateInterval
              /\ globalTimer'.hostTimers = globalTimer.hostTimers
              /\ globalTimer'.state = globalTimer.state
              /\ globalTimer' = globalTimer]_vars

\* An out-of-range call was ignored while the timer runs with an interval
\* that an earlier call had set
C18_Witness ==
    /\ lastCall.op = "setUpdateInterval"
    /\ lastCall.rejected
    /\ ~lastCall.changed
    /\ globalTimer.state.isRunning
    /\ globalTimer.updateInterval # DefaultUpdateInterval
    /\ globalTimer.hostTimers # {}

(***************************************************************************)
(* formatTime and parseTime as pure functions: a number of seconds is      *)
(* drawn, formatted and the text parsed back.                              *)
(***************************************************************************)
MaxSeconds == 7322
LargeSeconds == {35999, 36000, 86399, 86400, 359999, 360000, 3599999, 3600000}
Seconds == 0..MaxSeconds \cup LargeSeconds

InitFormat ==
    /\ now = 0
    /\ globalTimer = PrecisionTimerInit
    /\ lastCall = Call("new", NULL, FALSE, PrecisionTimerInit, PrecisionTimerInit)
    /\ run = NoRun
    /\ idleDetector = IdleDetectorInit
    /\ idleCall = NoIdleCall
    /\ hooks = [h \in TaskIds |-> HookInit(0)]
    /\ hookCall = NoHookCall
    /\ main = MainInit
    /\ ipc = <<>>
    /\ \E n \in Seconds :
           codec = [op |-> "seconds", seconds |-> n, text |-> <<>>, parsed |-> Returned(0)]

\* parseTime(formatTime(seconds))
RoundTrip ==
    /\ codec.op = "seconds"
    /\ codec' = [op |-> "roundTrip", seconds |-> codec.seconds,
                 text |-> formatTime(codec.seconds),
                 parsed |-> parseTimeOutcome(formatTime(codec.seconds))]
    /\ UNCHANGED <<now, timerVars, idleVars, hookVars, mainVars>>

NextFormat == RoundTrip

SpecFormat == InitFormat /\ [][NextFormat]_vars

\* C19: for every integer n >= 0 the text formatTime(n) parses back to n, its
\* minutes and seconds groups are two digits each with a value in 0..59, and
\* its hours group has at least two digits.
C19_RoundTripAndFieldWidths ==
    codec.op = "roundTrip" =>
        /\ ~codec.parsed.threw
        /\ codec.parsed.value = codec.seconds
        /\ Len(codec.text) = 3
        /\ \A g \in 1..3 : IsDigits(codec.text[g])
        /\ Len(codec.text[1]) >= 2
        /\ \A g \in 2..3 : Len(codec.text[g]) = 2 /\ NumberOf(codec.text[g]) \in 0..59

\* A duration of 100 hours or more, with one-digit minutes, has been formatted
\* and parsed back
C19_Witness ==
    /\ codec.op = "roundTrip"
    /\ Len(codec.text[1]) = 3
    /\ NumberOf(codec.text[2]) < 10
    /\ codec.parsed.value = codec.seconds

(***************************************************************************)
(* parseTime on arbitrary texts: up to MaxGroups groups of up to           *)
(* MaxGroupLen characters.                                                 *)
(***************************************************************************)
MaxGroups == 4
MaxGroupLen == 2
Chars == {0, 6, Minus, Letter}
Groups == UNION {[1..k -> Chars] : k \in 0..MaxGroupLen}
Texts == UNION {[1..k -> Groups] : k \in 1..3}
            \cup {[i \in 1..MaxGroups |-> <<0, 0>>], [i \in 1..MaxGroups |-> <<>>]}

InitParse ==
    /\ now = 0
    /\ globalTimer = PrecisionTimerInit
    /\ lastCall = Call("new", NULL, FALSE, PrecisionTimerInit, PrecisionTimerInit)
    /\ run = NoRun
    /\ idleDetector = IdleDetectorInit
    /\ idleCall = NoIdleCall
    /\ hooks = [h \in TaskIds |-> HookInit(0)]
    /\ hookCall = NoHookCall
    /\ main = MainInit
    /\ ipc = <<>>
    /\ \E t \in Texts :
           codec = [op |-> "text", seconds |-> 0, text |-> t, parsed |-> Returned(0)]

\* parseTime(text)
ParseTime ==
    /\ codec.op = "text"
    /\ codec' = [codec EXCEPT !.op = "parseTime", !.parsed = parseTimeOutcome(codec.text)]
    /\ UNCHANGED <<now, timerVars, idleVars, hookVars, mainVars>>

NextParse == ParseTime

SpecParse == InitParse /\ [][NextParse]_vars

\* A group that is a numeral: at least one digit, a minus sign before it or not
Numeric(group) == group # <<>> /\ ~Number(group).nan
Negative(group) == Numeric(group) /\ group[1] = Minus /\ NumberOf(Tail(group)) > 0
FormatErrors ==
    {"Invalid time string format", "Time string must be in HH:mm:ss format",
     "Invalid time values"}
RangeErrors == {"Invalid time range"}

\* Exactly three numeric groups, none negative, minutes and seconds in 0..59
WellFormed(text) ==
    /\ Len(text) = 3
    /\ \A g \in 1..3 : Numeric(text[g]) /\ ~Negative(text[g])
    /\ \A g \in 2..3 : Number(text[g]).value \in 0..59

\* C20: parseTime returns a value only for a text of exactly three numeric
\* groups with minutes and seconds in 0..59 and no negative group; every other
\* text throws: a format error for a wrong number of groups or a group that is
\* not numeric, a range error for minutes or seconds of 60 or more or a
\* negative group.
C20_OnlyWellFormedTextsParse ==
    codec.op = "parseTime" =>
        /\ ~codec.parsed.threw => WellFormed(codec.text)
        /\ ~WellFormed(codec.text) => codec.parsed.threw
        /\ (Len(codec.text) # 3 \/ \E g \in 1..Len(codec.text) : ~Numeric(codec.text[g]))
              => codec.parsed.message \in FormatErrors
        /\ (Len(codec.text) = 3 /\ (\A g \in 1..3 : Numeric(codec.text[g]))
              /\ ~WellFormed(codec.text))
              => codec.parsed.message \in RangeErrors

(***************************************************************************)
(* addSeconds on the duration texts parseTime accepts, canonical or not.   *)
(***************************************************************************)
AddDeltas == {-86400, -60, -1, 0, 1, 30, 60, 3600, 86400}
DurationTexts ==
    {t \in [1..3 -> Groups] : WellFormed(t)}
        \cup {formatTime(n) : n \in {59, 3599, 86399, 359999}}

InitAdd ==
    /\ now = 0
    /\ globalTimer = PrecisionTimerInit
    /\ lastCall = Call("new", NULL, FALSE, PrecisionTimerInit, PrecisionTimerInit)
    /\ run = NoRun
    /\ idleDetector = IdleDetectorInit
    /\ idleCall = NoIdleCall
    /\ hooks = [h \in TaskIds |-> HookInit(0)]
    /\ hookCall = NoHookCall
    /\ main = MainInit
    /\ ipc = <<>>
    /\ \E t \in DurationTexts, d \in AddDeltas :
           codec = [op |-> "addend", seconds |-> d, text |-> t, parsed |-> Returned(0)]

\* addSeconds(text, seconds)
AddSeconds ==
    /\ codec.op = "addend"
    /\ codec' = [op |-> "addSeconds", seconds |-> codec.seconds, text |-> codec.text,
                 parsed |-> parseTimeOutcome(addSeconds(codec.text, codec.seconds)),
                 result |-> addSeconds(codec.text, codec.seconds)]
    /\ UNCHANGED <<now, timerVars, idleVars, hookVars, mainVars>>

NextAdd == AddSeconds

SpecAdd == InitAdd /\ [][NextAdd]_vars

\* C21: for a valid duration text t and an integer delta, addSeconds(t, delta)
\* is the formatted text of parse(t) + max(0, delta); a negative delta gives
\* the canonical form of t, and the result never denotes fewer seconds than t.
C21_AddSecondsClampsAtZero ==
    codec.op = "addSeconds" =>
        /\ codec.result = formatTime(parseTime(codec.text) + Max(0, codec.seconds))
        /\ ~codec.parsed.threw
        /\ codec.parsed.value = parseTime(codec.text) + Max(0, codec.seconds)
        /\ codec.parsed.value >= parseTime(codec.text)
        /\ codec.seconds < 0 => codec.result = formatTime(parseTime(codec.text))

\* A negative number of seconds was added to a text that is not canonical
C21_Witness ==
    /\ codec.op = "addSeconds"
    /\ codec.seconds < 0
    /\ codec.result # codec.text
    /\ codec.parsed.value = parseTime(codec.text)

(***************************************************************************)
(* Properties of the tick chain and of the adaptive interval               *)
(***************************************************************************)

\* C22: while the timer is running exactly one tick callback is armed, and
\* while it is not running none is, after any sequence of start, pause,
\* resume, stop, ticks and tick-processing failures.
C22_ExactlyOneTickArmed ==
    /\ globalTimer.state.isRunning => Cardinality(globalTimer.hostTimers) = 1
    /\ ~globalTimer.state.isRunning => globalTimer.hostTimers = {}

\* The window ran the callback exactly when its delay had passed
OnTime(h) == (now - h.armedAt) * Micro = h.delay

\* C23: a tick that fires exactly at its armed delay measures a drift within
\* the 30 ms threshold and records no correction, and the tenth such tick in a
\* row grows the adaptive interval by 5%, up to the 2000 ms maximum.
C23_OnTimeTickIsGood ==
    [][\A h \in globalTimer.hostTimers, r \in ReactionSeqs :
          (OnTime(h) /\ globalTimer.state.isRunning /\ TimerCallback(h, FALSE, r)) =>
              /\ \A i \in 1..Len(lastCall'.delivered) :
                     Abs(lastCall'.delivered[i].event.drift) <= DriftThreshold
              /\ globalTimer'.qualityMonitor.totalCorrections
                     = globalTimer.qualityMonitor.totalCorrections
              /\ globalTimer.consecutiveGoodUpdates = GoodUpdatesToGrow - 1 =>
                     globalTimer'.adaptiveInterval =
                         Min((globalTimer.adaptiveInterval * (AdaptiveStepDen + AdaptiveStepNum))
                                 \div AdaptiveStepDen,
                             MaxUpdateInterval * Micro)]_vars

(***************************************************************************)
(* The running timer with its ticks, failing or not, and a caller of       *)
(* optimizePerformance() and resetQualityMonitoring().                     *)
(***************************************************************************)
OptimizePerformance ==
    LET after == optimizePerformance(globalTimer)
    IN /\ globalTimer' = after
       /\ lastCall' = Call("optimizePerformance", NULL, FALSE, globalTimer, after)
       /\ UNCHANGED <<now, run, idleVars, hookVars, mainVars, codecVars>>

ResetQualityMonitoring ==
    LET after == resetQualityMonitoring(globalTimer)
    IN /\ globalTimer' = after
       /\ lastCall' = Call("resetQualityMonitoring", NULL, FALSE, globalTimer, after)
       /\ UNCHANGED <<now, run, idleVars, hookVars, mainVars, codecVars>>

\* A tick, failing or not, whose subscribers return
PlainTick(h, fails) == TimerCallback(h, fails, [i \in 1..NumListeners |-> "none"])

NextAdaptive ==
    \/ Advance
    \/ Start(1, 0)
    \/ \E h \in globalTimer.hostTimers, f \in BOOLEAN : PlainTick(h, f)
    \/ OptimizePerformance
    \/ ResetQualityMonitoring

SpecAdaptive == InitTimer /\ [][NextAdaptive]_vars

C25_FailureCounterIsConsecutive ==
    [][\A h \in globalTimer.hostTimers, f \in BOOLEAN, r \in ReactionSeqs :
          (TimerCallback(h, f, r) /\ lastCall'.processed) =>
              /\ ~f => globalTimer'.consecutiveErrors = 0
              /\ (f /\ globalTimer.consecutiveErrors + 1 < MaxConsecutiveErrors) =>
                     globalTimer'.consecutiveErrors = globalTimer.consecutiveErrors + 1
              /\ (f /\ globalTimer.consecutiveErrors + 1 >= MaxConsecutiveErrors) =>
                     /\ globalTimer'.qualityMonitor = QualityMonitorInit
                     /\ globalTimer'.adaptiveInterval = DefaultUpdateInterval * Micro
                     /\ globalTimer'.consecutiveErrors = 0]_vars

\* C26: stop() discards the drift samples of the run that ends: after stop()
\* the quality monitor holds no samples and its metrics are the initial ones,
\* so the next run's metrics depend on its own ticks only.
C26_StopDiscardsSamples ==
    lastCall.op = "stop" => globalTimer.qualityMonitor = QualityMonitorInit

(***************************************************************************)
(* The quality monitor on its own: recordDrift is called once per          *)
(* millisecond of the clock, up to MaxSamples calls.  The first FreeFrom   *)
(* samples follow a fixed pattern of distinct positive and negative        *)
(* drifts, the later ones are drawn from DriftSamples.                     *)
(***************************************************************************)
MaxSamples == 104
FreeFrom == 98
DriftSamples == {-40, 0, 25, 1000}
DriftAt(k) == ((k * 37) % 101) - 30
DriftChoices(k) == IF k < FreeFrom THEN {DriftAt(k)} ELSE DriftSamples

RecordDrift(drift) ==
    /\ now < MaxSamples
    /\ now' = now + 1
    /\ LET after == [globalTimer EXCEPT !.qualityMonitor = recordDrift(@, drift)]
       IN /\ globalTimer' = after
          /\ lastCall' = Call("recordDrift", NULL, FALSE, globalTimer, after)
    /\ UNCHANGED <<run, idleVars, hookVars, mainVars, codecVars>>

NextMonitor == \E drift \in DriftChoices(now) : RecordDrift(drift)

SpecMonitor == InitTimer /\ [][NextMonitor]_vars

\* C27: the drift history never holds more than 100 samples; a recordDrift
\* appends the absolute drift, and one that would make the history 101 long
\* leaves exactly the 50 most recent samples in order; the average and the
\* maximum are those of the retained samples.
C27_DriftHistoryBounded ==
    [][\A drift \in DriftChoices(now) :
          RecordDrift(drift) =>
              LET before == globalTimer.qualityMonitor.driftHistory
                  after == globalTimer'.qualityMonitor.driftHistory
                  all == Append(before, Abs(drift))
              IN /\ Len(after) <= DriftHistoryCap
                 /\ Len(before) < DriftHistoryCap => after = all
                 /\ Len(before) = DriftHistoryCap =>
                        /\ Len(after) = DriftHistoryKeep
                        /\ \A i \in 1..DriftHistoryKeep :
                               after[i] = all[Len(all) - DriftHistoryKeep + i]
                 /\ globalTimer'.qualityMonitor.averageDrift
                        = [num |-> SumSeq(after), den |-> Len(after)]
                 /\ globalTimer'.qualityMonitor.maxDrift = MaxSeq(after)]_vars

\* The call that found 100 samples has left 50
C27_Witness ==
    /\ lastCall.op = "recordDrift"
    /\ now = DriftHistoryCap + 1
    /\ Len(globalTimer.qualityMonitor.driftHistory) = DriftHistoryKeep
    /\ globalTimer.qualityMonitor.averageDrift.den = DriftHistoryKeep

(***************************************************************************)
(* Properties of the detector's shutdown and polling, under SpecIdle       *)
(***************************************************************************)

\* C28: from the return of stop() until the next start(), whatever poll was
\* in flight and whatever user input arrives, no subscriber is notified, the
\* public idle flag does not change and no history entry is added; and at
\* most one set of user-input handlers is attached after start/stop cycles.
C28_StoppedDetectorIsSilent ==
    [][/\ (/\ idleDetector.checkInterval = NULL
            /\ idleDetector'.checkInterval = NULL
            /\ idleCall'.op \in {"poll", "userActivity"}) =>
               /\ idleDetector'.isIdle = idleDetector.isIdle
               /\ idleDetector'.activityHistory = idleDetector.activityHistory
               /\ idleCall' # idleCall => idleCall'.notified = <<>>
       /\ idleDetector'.activityHandlers <= 1]_vars

(***************************************************************************)
(* The detector with answers that may take longer than the polling         *)
(* interval: up to MaxPolls queries are unanswered at a time.              *)
(***************************************************************************)
MaxPolls == 2

NextPolls ==
    \/ AdvanceIdle
    \/ IdleStart
    \/ IdleStop
    \/ \E h \in idleDetector.hostTimers : PollFireWithin(MaxPolls, h)
    \/ \E f \in BOOLEAN, i \in IdleTimes : PollSettle(f, i)

SpecPolls == InitIdle /\ [][NextPolls]_vars

\* C29: at most one idle poll of the detector is in flight at any time: a new
\* poll starts only after the previous poll's query has been answered and the
\* answer processed.
C29_OnePollInFlight == idleDetector.inFlight <= 1

(***************************************************************************)
(* The started detector driven by polling alone.  Until the detector is    *)
(* idle the host answers anything or fails; once it is idle every answer   *)
(* is a successful one below the idle threshold.  The clock value          *)
(* MaxIdleNow stands for that instant and every later one, so the polling  *)
(* interval keeps firing there.                                            *)
(***************************************************************************)
BelowThreshold == {0, 1000, IdleThreshold - 1000}

ResumePollFire(h) ==
    /\ Due(h) \/ now = MaxIdleNow
    /\ idleDetector.inFlight < MaxInFlight
    /\ idleDetector' = [idleDetector EXCEPT !.hostTimers = fired(@, h),
                                            !.inFlight = @ + 1]
    /\ idleCall' = IdleCall("query", idleDetector, idleDetector, FALSE, NULL, NULL, <<>>)
    /\ UNCHANGED <<now, timerVars, hookVars, mainVars, codecVars>>

\* An answer while the detector is not idle, at an instant the clock tells
\* from the later ones
AnswerWhileActive(failed, systemIdleTime) ==
    /\ ~idleDetector.isIdle
    /\ now < MaxIdleNow
    /\ PollSettle(failed, systemIdleTime)

\* A successful answer below the threshold while the detector is idle
AnswerBelowThreshold(systemIdleTime) ==
    /\ idleDetector.isIdle
    /\ idleDetector.inFlight > 0
    /\ LET before == [idleDetector EXCEPT !.inFlight = @ - 1]
           result == performIdleCheck(before, now, FALSE, systemIdleTime)
       IN /\ idleDetector' = result.detector
          /\ idleCall' = IdleCall("poll", before, result.detector, FALSE,
                                  systemIdleTime, result.confidence, result.notified)
    /\ UNCHANGED <<now, timerVars, hookVars, mainVars, codecVars>>

ResumePolls == \E h \in idleDetector.hostTimers : ResumePollFire(h)
ResumeAnswers == \E i \in BelowThreshold : AnswerBelowThreshold(i)

NextResume ==
    \/ AdvanceIdle
    \/ IdleStart
    \/ ResumePolls
    \/ \E f \in BOOLEAN, i \in IdleTimes : AnswerWhileActive(f, i)
    \/ ResumeAnswers

\* Time passes, the armed interval fires and the host answers each query
SpecResume ==
    /\ InitIdle
    /\ [][NextResume]_vars
    /\ WF_vars(AdvanceIdle)
    /\ WF_vars(ResumePolls)
    /\ WF_vars(ResumeAnswers)

\* The last poll told the subscribers that the user is active
NotifiedActive ==
    /\ idleCall.op = "poll"
    /\ idleCall.notified # <<>>
    /\ \A i \in 1..Len(idleCall.notified) : ~idleCall.notified[i].isIdle

\* C30: when the detector is idle and every successful poll from then on
\* reports an idle duration below the threshold, the detector eventually sets
\* the idle flag to false and notifies the subscribers of the active state,
\* by polling alone.
C30_PollingAloneResumes ==
    idleDetector.isIdle ~> (~idleDetector.isIdle /\ NotifiedActive)

(***************************************************************************)
(* Properties of the detector's history, error counter and interval        *)
(***************************************************************************)

\* C31: a poll whose fused confidence is below the minimum floor appends one
\* entry with its idle duration and confidence to the activity history and
\* leaves the public idle flag unchanged.
C31_SubFloorPollIsRecorded ==
    [][\A i \in IdleTimes :
          (/\ PollSettle(FALSE, i)
           /\ idleCall'.confidence < MinimumConfidence) =>
              /\ idleDetector'.isIdle = idleDetector.isIdle
              /\ Len(idleDetector'.activityHistory) = Len(idleDetector.activityHistory) + 1
              /\ LET last == idleDetector'.activityHistory[Len(idleDetector'.activityHistory)]
                 IN last.idleTime = i /\ last.confidence = idleCall'.confidence]_vars

(***************************************************************************)
(* The detector polling through a long outage of the idle-duration query:  *)
(* the query is answered during the first seconds and again at the end,    *)
(* and rejects in between.  The host fires the interval on time and the    *)
(* answer or rejection arrives before the clock moves; the clock is        *)
(* followed from the detector's start.                                     *)
(***************************************************************************)
ErrorIdleTimes == {0, 200000, 300000, 700000, 1000000}

AdvanceErrors ==
    /\ idleDetector.checkInterval # NULL
    /\ idleDetector.inFlight = 0
    /\ \A h \in idleDetector.hostTimers : ~Due(h)
    /\ \E d \in IdleDeltas : now + d <= MaxErrorNow /\ now' = now + d
    /\ UNCHANGED <<timerVars, idleVars, hookVars, mainVars, codecVars>>

Answered == now <= AnswersUntil \/ now >= AnswersFrom

ErrorPollSettle(failed, systemIdleTime) ==
    /\ failed \/ Answered
    /\ PollSettleWithin(MaxErrorHistory, failed, systemIdleTime)

NextErrors ==
    \/ AdvanceErrors
    \/ IdleStart
    \/ \E h \in idleDetector.hostTimers : PollFire(h)
    \/ \E f \in BOOLEAN, i \in ErrorIdleTimes : ErrorPollSettle(f, i)

SpecErrors == InitIdle /\ [][NextErrors]_vars

LastEntry(d) == d.activityHistory[Len(d.activityHistory)]

\* C32: the error counter counts consecutive failed polls and a successful
\* poll resets it to 0; the tenth consecutive failure doubles the poll
\* interval, never above 10 000 ms, and returns the counter to 0; every
\* failed poll appends one history entry of low confidence and source
\* estimated and leaves the public idle flag unchanged.
C32_FailedPollsCountAndBackOff ==
    [][\A f \in BOOLEAN, i \in ErrorIdleTimes :
          ErrorPollSettle(f, i) =>
              IF f
              THEN /\ idleDetector'.isIdle = idleDetector.isIdle
                   /\ Len(idleDetector'.activityHistory)
                          = Len(idleDetector.activityHistory) + 1
                   /\ LastEntry(idleDetector').confidence = Fused(LOW)
                   /\ LastEntry(idleDetector').source = "estimated"
                   /\ idleDetector'.currentCheckInterval <= 10000
                   /\ IF idleDetector.consecutiveErrors = 9
                      THEN /\ idleDetector'.consecutiveErrors = 0
                           /\ idleDetector'.currentCheckInterval
                                  = Min(idleDetector.currentCheckInterval * 2, 10000)
                      ELSE /\ idleDetector'.consecutiveErrors
                                  = idleDetector.consecutiveErrors + 1
                           /\ idleDetector'.currentCheckInterval
                                  = idleDetector.currentCheckInterval
              ELSE idleDetector'.consecutiveErrors = 0]_vars

\* the tenth failure in a row at an interval of 8000 ms brought it to the cap
C32_Witness ==
    /\ idleCall.op = "poll"
    /\ idleCall.failed
    /\ idleDetector.consecutiveErrors = 0
    /\ idleDetector.currentCheckInterval = 10000
    /\ \E k \in 1..Len(idleDetector.activityHistory) :
          idleDetector.activityHistory[k].source = "system"

\* The settled poll was answered and its fused confidence reached the floor
Accepted(call) ==
    /\ call.op = "poll"
    /\ ~call.failed
    /\ call.confidence >= MinimumConfidence

\* C33: the poll interval is within [1000, 10000] ms in every reachable
\* state; directly after a poll that succeeded at or above the confidence
\* floor it is within [1000, 5000] ms, at least 2000 ms when the poll found
\* the system idle and at most 1500 ms when it found it active.
C33_PollIntervalRanges ==
    /\ [](idleDetector.currentCheckInterval \in 1000..10000)
    /\ [][\A i \in ErrorIdleTimes :
             (ErrorPollSettle(FALSE, i) /\ Accepted(idleCall')) =>
                /\ idleDetector'.currentCheckInterval \in 1000..5000
                /\ (i >= IdleThreshold => idleDetector'.currentCheckInterval >= 2000)
                /\ (i < IdleThreshold => idleDetector'.currentCheckInterval <= 1500)]_vars

\* an answer at the floor or above, after the outage had brought the
\* interval to 10 s, found the system idle for over three thresholds
C33_Witness ==
    /\ Accepted(idleCall)
    /\ idleCall.idleTime > IdleThreshold * 3
    /\ idleDetector.currentCheckInterval = 5000
    /\ now >= AnswersFrom

(***************************************************************************)
(* Properties of the coordinator's suspended records and suggestions       *)
(***************************************************************************)
\* The timer is timing task t and running
Timing(timer, t) == timer.state.taskId = t /\ timer.state.isRunning

\* No record exists for a task whose timer is running
NoRecordWhileRunning ==
    \A t \in TaskIds : Timing(globalTimer, t) => t \notin DOMAIN main.suspendedTimers

\* An idle notice that pauses the timer leaves a record for its task
IdlePauseCreatesRecord ==
    (/\ hookCall'.op = "notice"
     /\ globalTimer.state.isRunning
     /\ ~globalTimer'.state.isRunning
     /\ globalTimer'.state.taskId # NULL) =>
        globalTimer'.state.taskId \in DOMAIN main'.suspendedTimers

\* C34: a task has a SuspendedTimerRecord exactly when its timer is paused
\* because of detected idleness or host suspend: an idle-triggered
\* auto-pause creates a record for the task, and no record exists for a
\* task whose timer is running.
C34_RecordIffPausedByIdleOrSuspend ==
    /\ []NoRecordWhileRunning
    /\ [][IdlePauseCreatesRecord]_vars

\* The pending suggestions made for task t, under its id or under its record
SuggestionsOf(m, t) ==
    {k \in DOMAIN m.pendingResumeSuggestions : k.id = t \/ k.owner = t}

\* Every pending suggestion is identified by the id of a task, one per task
SuggestionsKeyedByTaskId ==
    /\ \A k \in DOMAIN main.pendingResumeSuggestions : k.id \in TaskIds
    /\ \A t \in TaskIds : Cardinality(SuggestionsOf(main, t)) <= 1

\* A scan adds suggestions only below the threshold and for suspended tasks
\* without one, and leaves the existing suggestions as they are
ScanAddsOnce ==
    \A i \in MainIdleTimes :
        GenerateResumeSuggestions(i) =>
            /\ \A k \in DOMAIN main.pendingResumeSuggestions :
                   /\ k \in DOMAIN main'.pendingResumeSuggestions
                   /\ main'.pendingResumeSuggestions[k] = main.pendingResumeSuggestions[k]
            /\ \A t \in TaskIds :
                   SuggestionsOf(main', t) # SuggestionsOf(main, t) =>
                       /\ i < SuggestionThreshold
                       /\ t \in DOMAIN main.suspendedTimers
                       /\ SuggestionsOf(main, t) = {}

\* C35: for each suspended task the periodic scan creates a ResumeSuggestion
\* identified by that task's id at most once per suspension, only when the
\* idle source reports an idle duration below the suggestion threshold, and
\* a later scan never overwrites or duplicates an existing suggestion for
\* the task.
C35_OneSuggestionPerSuspendedTask ==
    /\ []SuggestionsKeyedByTaskId
    /\ [][ScanAddsOnce]_vars

\* Suggestion key k belongs to a task that has a suspended record now
BelongsToSuspended(m, k) ==
    \E t \in DOMAIN m.suspendedTimers :
        k.id = t \/ k = ObjectKey(t, m.suspendedTimers[t])

\* C36: in every reachable coordinator state each pending ResumeSuggestion
\* belongs to a task that currently has a SuspendedTimerRecord (a resume
\* signal, an unregistration or a purge that removes the record also
\* removes the suggestion), so getStats().pendingResumeSuggestions never
\* exceeds getStats().suspendedTimers.
C36_SuggestionsOnlyForSuspended ==
    /\ \A k \in DOMAIN main.pendingResumeSuggestions : BelongsToSuspended(main, k)
    /\ getBackgroundStats(main).pendingResumeSuggestions
           <= getBackgroundStats(main).suspendedTimers

(***************************************************************************)
(* Properties of the persisted duration                                    *)
(***************************************************************************)
\* No write of task t is in flight and no retry of one is scheduled
WritesSettled(t) ==
    \A i \in DOMAIN ipc :
        ~(ipc[i].channel = "update-task-time" /\ ipc[i].taskId = t)

\* The persisted duration of a task is the value of its latest write
\* request, which updateTime also shows
PersistedIsLatestRequest ==
    \A t \in ShownTasks : WritesSettled(t) => main.tasks[t] = hooks[t].actualTime

\* The persisted duration of no task decreases
PersistedNeverDecreases ==
    \A t \in TaskIds : parseTime(main'.tasks[t]) >= parseTime(main.tasks[t])

\* C37: once all in-flight persistence writes and scheduled retries for a
\* task have completed, the persisted duration equals the value of the most
\* recently requested write; a delayed retry of an older value never
\* overwrites a newer value, so the persisted duration of a task never goes
\* backwards during a timing session.
C37_PersistedDurationMonotonic ==
    /\ []PersistedIsLatestRequest
    /\ [][PersistedNeverDecreases]_vars

(***************************************************************************)
(* The hooks and the host's power and screen events: the buttons, the      *)
(* suspend and resume signals, the screen being unlocked, the detector     *)
(* reporting idle, and the answers of the main process.                    *)
(***************************************************************************)
\* handleScreenUnlocked of every mounted hook, in the order they subscribed
RECURSIVE handleScreenUnlocked(_, _, _)
handleScreenUnlocked(w, clock, pending) ==
    IF pending = {} THEN w
    ELSE LET h == First(pending)
         IN handleScreenUnlocked(
                IF w.hooks[h].mounted THEN resetIdleState(w, h, clock) ELSE w,
                clock, pending \ {h})

\* powerMonitor's unlock-screen: the window gets screen-unlocked
ScreenUnlocked ==
    /\ Len(idleDetector.activityHistory) < MaxHookHistory
    /\ Commit("screen-unlocked", NULL, handleScreenUnlocked(Renderer, now, DOMAIN hooks))

NextPower ==
    \/ AdvanceHook
    \/ \E h \in ShownTasks : StartTimer(h)
    \/ \E h \in ShownTasks : StopTimer(h)
    \/ \E h \in ShownTasks : ResetIdleState(h)
    \/ ScreenUnlocked
    \/ SystemSuspend
    \/ SystemResume
    \/ IdleNotice
    \/ \E f \in BOOLEAN : InvokeReply(f)

SpecPower == InitHook /\ [][NextPower]_vars

(***************************************************************************)
(* Properties of the hooks sharing the timer and the detector              *)
(***************************************************************************)
\* C38: whenever the timer is running for a task, the hook of that task
\* reports isRunning; after a host suspend has paused the timer, a
\* screen-unlock or resume event that follows does not leave the timer
\* running while the hook reports it stopped.
C38_RunningTimerShownRunning ==
    \A h \in ShownTasks : Timing(globalTimer, h) => hooks[h].isRunning

\* The screen was unlocked after a suspend signal, with the start's
\* registration still unanswered: the hook shows the suspend error, reports
\* stopped, and the timer is not running
C38_Witness ==
    /\ hookCall.op = "screen-unlocked"
    /\ Len(ipc) >= 1
    /\ ipc[1].channel = "register-timer-activity"
    /\ \E h \in ShownTasks : hooks[h].hasError /\ ~hooks[h].isRunning
    /\ ~globalTimer.state.isRunning

\* The detector's polling interval is armed
Polling(d) == d.checkInterval # NULL

\* stopTimer() on the hook of a task the timer is not timing leaves the
\* timer running for its task and the detector polling
StopElsewhereKeepsBoth ==
    (/\ hookCall'.op = "stopTimer"
     /\ globalTimer.state.isRunning
     /\ globalTimer.state.taskId # hookCall'.hook) =>
        /\ Timing(globalTimer', globalTimer.state.taskId)
        /\ Polling(idleDetector')

\* C39: whenever the timer is running, the idle detector is polling; with
\* several hooks sharing the timer and the detector, starting task B while
\* task A is timed and then invoking stopTimer() on A's hook stops neither
\* the detector nor the timer that is timing B.
C39_DetectorPollsWhileTiming ==
    /\ [](globalTimer.state.isRunning => Polling(idleDetector))
    /\ [][StopElsewhereKeepsBoth]_vars

(***************************************************************************)
(* The duration validator on the texts the timer's formatter produces: a   *)
(* number of seconds is formatted, the text is tested as the periodic      *)
(* integrity check tests it and handed to the update-task-time handler     *)
(* for task 1.                                                             *)
(***************************************************************************)
Validate ==
    /\ codec.op = "seconds"
    /\ LET text == formatTime(codec.seconds)
           r == updateTaskTime(main, 1, text)
       IN /\ codec' = [op |-> "validate", seconds |-> codec.seconds, text |-> text,
                       valid |-> isValidTimeFormat(text), stored |-> r.returned]
          /\ main' = r.main
    /\ UNCHANGED <<now, timerVars, idleVars, hookVars, ipc>>

NextValidate == Validate

SpecValidate == InitFormat /\ [][NextValidate]_vars

\* C40: for every integer n >= 0 the text formatTime(n) is accepted by the
\* duration validator of the update-task-time handler and of the periodic
\* integrity check: no elapsed time the timer can produce is rejected at
\* persistence or reported as malformed.
C40_FormattedTimeIsAccepted ==
    codec.op = "validate" =>
        /\ codec.valid
        /\ codec.stored
        /\ main.tasks[1] = codec.text

====
